---- MODULE Spec2Model ----
(***************************************************************************)
(* Model of the exchange connectivity gateway of ritmex-bot:               *)
(*   - LighterGateway (src/src/exchanges/lighter/gateway.ts): signed       *)
(*     submissions with nonces, the live-order map, the order book and     *)
(*     account reconcilers, the push-connection session, market metadata,  *)
(*     the ticker and kline pollers, the scaled-decimal helpers;           *)
(*   - AsterGateway (src/src/exchanges/aster/client.ts): the live-order    *)
(*     map, the kline seed and refresh timers;                             *)
(*   - RateLimitController (src/src/core/lib/rate-limit.ts);               *)
(*   - the listener registries: createEvent, SimpleEvent and the listener  *)
(*     loop of BinanceDepthTracker (src/src/strategy/common/               *)
(*     binance-depth.ts);                                                  *)
(*   - the nonce manager (./nonce-manager, not part of the sources at      *)
(*     hand) as the specification describes it.                            *)
(* Each subsystem has its own specification over the shared variables; a   *)
(* specification leaves the other subsystems' variables at their initial   *)
(* values.                                                                  *)
(***************************************************************************)
EXTENDS Integers, Sequences, FiniteSets, TLC

VARIABLES
  \* ---- signed submissions and live orders (LighterGateway)
  nonceState,        \* HttpNonceManager: per-key counter and round-robin pointer
  calls,             \* in-flight createOrder / cancelOrder / cancelAllOrders calls
  authValid,         \* this.auth holds a token that has not expired
  orderMap,          \* this.orderMap
  ordersEmitted,     \* the last step emitted an orders event
  lastOrdersEvent,   \* payload of the last orders event
  lastApplied,       \* per order key: the last stream update applied to it
  \* ---- live orders (AsterGateway)
  openOrders,        \* this.openOrders
  asterOrdersEmitted,\* the last step emitted an orders event
  lastAsterOrdersEvent, \* payload of the last orders event
  lastAsterCall,     \* the last operation on the live orders, with its outcome
  \* ---- order book (LighterGateway)
  orderBook,             \* this.orderBook
  lastOrderBookOffset,   \* this.lastOrderBookOffset
  lastOrderBookTimestamp,\* this.lastOrderBookTimestamp
  clock,                 \* Date.now()
  depthEmitted,          \* the last step emitted a depth event
  tickerEmitted,         \* the last step emitted a (synthetic) ticker event
  lastBookMsg,           \* the last order-book message delivered, with the state before it
  awaitingSnapshot,      \* no order-book message has arrived yet on the current
                         \* connection: "initial", "reconnect", or "no"
  \* ---- account positions (LighterGateway)
  positions,         \* this.positions
  accountDetails,    \* this.accountDetails is set
  accountEmitted,    \* the last step emitted an account event
  lastAccountMsg,    \* kind of the last account message, with the markets held before it
  removedMarkets,    \* markets whose position an update has removed at some point
  \* ---- push connection (LighterGateway)
  ws,                \* this.ws: the current socket, or none
  sockets,           \* the sockets created: readyState, listeners, promise, ...
  reconnectTimer,    \* this.reconnectTimer is pending
  heartbeatTimer,    \* this.heartbeatTimer is running
  lastMessageAt,     \* this.lastMessageAt
  wsClock,           \* Date.now() of the session, in units of the stale timeout
  initialized,       \* this.initialized
  connectPromise,    \* this.connectPromise is set
  serverAccepts,     \* the server accepts every connection attempt from now on
  everReady,         \* some connection has reached ready
  subscribed,        \* per socket: the channels a subscribe request was sent for
  subTarget,         \* per socket: the socket its subscribeChannels() call sends on
  reconnectDelay,    \* delay the pending reconnect timer was armed with (0: none)
  reconnectTimers,   \* timeouts of scheduleReconnect armed and not yet fired
  heartbeat,         \* what the last step did if it was a heartbeat tick
  \* ---- rate-limit controller (RateLimitController)
  controller,        \* the controller's fields and constructor arguments
  rateNow,           \* Date.now()
  lastRateCall,      \* the last call on the controller: fields before it, result
  degradedSince,     \* when the controller last entered the degraded state
  scenario,          \* progress of "two hits, pause, run again, entries resume"
  \* ---- event listeners (createEvent, SimpleEvent, BinanceDepthTracker)
  endpoint,          \* the registration method under study, of one stream
  latest,            \* version of the stream's latest value (0: none yet)
  handlers,          \* the stream's listener set, in insertion order
  invocations,       \* per listener: the versions it was invoked with, in order
  registeredAt,      \* per listener: the latest version when it was registered
  lastEmit,          \* the last emission: listeners, throwers, who was invoked
  \* ---- REST polling and market metadata
  gateway,           \* which gateway was constructed: "none", "lighter", "aster"
  marketId,          \* optional market id
  priceDecimals,     \* optional price decimals
  sizeDecimals,      \* optional size decimals
  metadataRequests,  \* number of getOrderBooks() requests issued so far
  awaitingBooks,     \* getPrecision() calls whose loadMetadata() awaits the books
  precisionOf,       \* per getPrecision() call: what it returned
  initializing,      \* where initialize() stands: "none", "loadMetadata",
                     \* "openWebSocket", "done"
  link,              \* the push connection after initialize(): "none", "up", "down"
  pollers,           \* active interval timers: ticker, and per kline interval
  klineCache,        \* per interval: a series is cached
  klinesEvent,       \* the listeners of the klines event
  watching,          \* per listener: the intervals it called watchKlines for
  refreshing,        \* per interval: where its refreshKlines() call stands
  lastPoll,          \* what the last step emitted or failed to emit
  klineEvents,       \* Aster: the keys that have an event
  klineInitialFetches, \* Aster: per key, the seed task
  klineRefreshTimers,  \* Aster: per key, the active refresh timers
  klineStores,       \* Aster: per key, the store holds klines
  onKlinesCalls,     \* Aster: per key, the number of onKlines calls
  \* ---- decimal helpers
  decimalCall,       \* the last call of a decimal helper: arguments and result
  \* ---- account snapshot (AsterGateway)
  accountSnapshot,   \* this.accountSnapshot
  positionSyncInFlight, \* this.positionSyncInFlight
  lastAccountSync,   \* the last operation on the snapshot, and whether it emitted
  \* ---- user stream and initialization (AsterUserStream, AsterGateway)
  isRunning,         \* AsterUserStream.isRunning
  listenKey,         \* AsterUserStream.listenKey is set
  streamWs,          \* AsterUserStream.ws: the current socket, or none
  streamSockets,     \* readyState of the sockets the stream has created
  keepAliveTimer,    \* AsterUserStream.keepAliveTimer is running
  reconnectTimeout,  \* AsterUserStream.reconnectTimeout is pending
  listenKeyRequests, \* getListenKey() requests awaited, by who awaits them
  stopped,           \* stop() was called and start() was not called since
  asterInitialized,  \* AsterGateway.initialized
  asterInitializing, \* AsterGateway.initializing: "none", the step the run
                     \* awaits ("refreshSnapshots", "start"), or "resolved"
  positionSyncTimer, \* AsterGateway.positionSyncTimer is running
  initActive,        \* initialization runs that are executing
  initRuns,          \* initialization runs started so far
  lastInit,          \* how the last finished run ended, and what failed in it
  \* ---- live orders against the exchange (AsterGateway)
  exchangeOrders,    \* the exchange: status of each order id ("none": not created)
  restInFlight,      \* REST responses the exchange has produced, not yet arrived
  streamQueue,       \* order events the exchange has produced, not yet delivered
  finalApplied,      \* order ids whose final-status event the gateway has applied
  \* ---- depth stream connection (BinanceDepthTracker)
  depthWs,           \* this.ws: the current socket, or none
  depthSockets,      \* readyState of the sockets the tracker has created
  depthReconnectTimer,   \* this.reconnectTimer is pending
  depthReconnectDelayMs, \* this.reconnectDelayMs
  depthStopped,      \* this.stopped
  depthOrphaned      \* a close event has cleared this.ws while it was another socket

txVars == <<nonceState, calls, authValid, orderMap, ordersEmitted,
            lastOrdersEvent, lastApplied>>
asterVars == <<openOrders, asterOrdersEmitted, lastAsterOrdersEvent, lastAsterCall>>
bookVars == <<orderBook, lastOrderBookOffset, lastOrderBookTimestamp, clock,
              depthEmitted, tickerEmitted, lastBookMsg, awaitingSnapshot>>
accountVars == <<positions, accountDetails, accountEmitted, lastAccountMsg,
                 removedMarkets>>
wsVars == <<ws, sockets, reconnectTimer, heartbeatTimer, lastMessageAt, wsClock,
            initialized, connectPromise, serverAccepts, everReady,
            subscribed, subTarget, reconnectDelay, reconnectTimers, heartbeat>>
rateVars == <<controller, rateNow, lastRateCall, degradedSince, scenario>>
listenerVars == <<endpoint, latest, handlers, invocations, registeredAt, lastEmit>>
pollVars == <<gateway, marketId, priceDecimals, sizeDecimals, metadataRequests,
              awaitingBooks, precisionOf, initializing, link, pollers,
              klineCache, klinesEvent, watching, refreshing, lastPoll,
              klineEvents, klineInitialFetches, klineRefreshTimers, klineStores,
              onKlinesCalls>>
decimalVars == <<decimalCall>>
asterAccountVars == <<accountSnapshot, positionSyncInFlight, lastAccountSync>>
streamVars == <<isRunning, listenKey, streamWs, streamSockets, keepAliveTimer,
                reconnectTimeout, listenKeyRequests, stopped>>
asterInitVars == <<asterInitialized, asterInitializing, positionSyncTimer,
                   initActive, initRuns, lastInit>>
raceVars == <<exchangeOrders, restInFlight, streamQueue, finalApplied>>
depthVars == <<depthWs, depthSockets, depthReconnectTimer, depthReconnectDelayMs,
               depthStopped, depthOrphaned>>
lateVars == <<asterAccountVars, streamVars, asterInitVars, raceVars, depthVars>>
vars == <<txVars, asterVars, bookVars, accountVars, wsVars, rateVars, listenerVars,
          pollVars, decimalVars, lateVars>>

\* An optional value: <<>> is null/undefined, <<x>> is x.
Opt(S) == {<<>>} \cup {<<x>> : x \in S}
Coalesce(a, b) == IF a # <<>> THEN a ELSE b

(***************************************************************************)
(* Bounds of the model.                                                    *)
(***************************************************************************)
NumKeys == 2      \* configured signing keys (apiKeyIndices)
NumCalls == 2     \* submissions in flight at the same time
MaxNonce == 2     \* nonces handed out per key
NumOrders == 2    \* distinct order identifiers
MaxBatch == 1     \* orders carried by one account_all_orders message

Keys == 0..(NumKeys - 1)
Calls == 1..NumCalls
OrderIds == 1..NumOrders


(***************************************************************************)
(* Nonce manager (HttpNonceManager, ./nonce-manager).  One counter per     *)
(* signing key; next() picks the key round-robin, returns the key's        *)
(* counter and advances it; acknowledgeFailure(key) decrements it.         *)
(***************************************************************************)
nonceInit == [counter |-> [k \in Keys |-> 0], current |-> NumKeys - 1]

nextKey(ns) == (ns.current + 1) % NumKeys

nonceNext(ns) ==
  LET k == nextKey(ns) IN
  [apiKeyIndex |-> k,
   nonce |-> ns.counter[k],
   state |-> [counter |-> [ns.counter EXCEPT ![k] = @ + 1], current |-> k]]

C27mut_acknowledgeFailure(ns, key) == ns

acknowledgeFailure(ns, key) == [ns EXCEPT !.counter[key] = @ - 1]

(***************************************************************************)
(* Live orders: handleAccountOrders.                                       *)
(***************************************************************************)
\* order.status values seen on the stream, in the spellings the exchange may use
OrderStatuses == {"open", "FILLED", "canceled", "expired", "rejected"}

\* String.prototype.toLowerCase on the statuses above
toLowerCase(s) == IF s = "FILLED" THEN "filled" ELSE s

\* gateway.ts:717
terminalStatuses == {"filled", "canceled", "cancelled", "expired"}

\* An order of an account_all_orders message: the three identifier fields
\* are optional.
OrderMsgs ==
  [order_index : Opt(OrderIds), order_id : {<<>>}, client_order_index : {<<>>},
   status : OrderStatuses]
  \cup
  [order_index : {<<>>}, order_id : {<<>>}, client_order_index : Opt(OrderIds),
   status : OrderStatuses]

\* String(order.order_index ?? order.order_id ?? order.client_order_index ?? "")
\* <<>> stands for the empty string
orderKey(order) ==
  Coalesce(order.order_index, Coalesce(order.order_id, order.client_order_index))

\* One iteration of the loop of handleAccountOrders
mergeOrder(map, order) ==
  LET key == orderKey(order)
      status == toLowerCase(order.status)
  IN IF key = <<>> THEN map
     ELSE IF status \in terminalStatuses
          THEN [map EXCEPT ![key[1]] = <<>>]
          ELSE [map EXCEPT ![key[1]] = <<order>>]

RECURSIVE mergeOrders(_, _)
mergeOrders(map, batch) ==
  IF batch = <<>> THEN map
  ELSE mergeOrders(mergeOrder(map, Head(batch)), Tail(batch))

RECURSIVE noteApplied(_, _)
noteApplied(applied, batch) ==
  IF batch = <<>> THEN applied
  ELSE LET key == orderKey(Head(batch)) IN
       noteApplied(IF key = <<>> THEN applied
                   ELSE [applied EXCEPT ![key[1]] = <<Head(batch)>>],
                   Tail(batch))

Batches == UNION {[1..n -> OrderMsgs] : n \in 0..MaxBatch}

\* What a step of this subsystem leaves alone
TxFrame == UNCHANGED <<asterVars, bookVars, accountVars, wsVars, rateVars, listenerVars,
  pollVars, decimalVars, lateVars>>

HandleAccountOrders(batch) ==
  /\ orderMap' = mergeOrders(orderMap, batch)
  /\ lastApplied' = noteApplied(lastApplied, batch)
  /\ ordersEmitted' = TRUE
  /\ lastOrdersEvent' = orderMap'
  /\ UNCHANGED <<nonceState, calls, authValid>>
  /\ TxFrame

(***************************************************************************)
(* createOrder / cancelOrder / cancelAllOrders.  A call is at one of its   *)
(* awaits: "signing" (the signer), "auth" (ensureAuthToken), "sending"   *)
(* (http.sendTransaction); "done" and "failed" are its outcomes, seen by   *)
(* the caller.                                                             *)
(***************************************************************************)
CallKinds == {"createOrder", "cancelOrder", "cancelAllOrders"}

IdleCall ==
  [pc |-> "idle", kind |-> "none", key |-> <<>>, nonce |-> <<>>, orderId |-> <<>>,
   acked |-> <<>>]

InFlight == {"signing", "auth", "sending"}

\* The call up to and including nonceManager.next() and the start of signing.
\* orderId: the order to cancel, or the order_index of the record that
\* createOrder synthesizes (clientOrderIndex % 1e9).
CallBegin(c, kind, id) ==
  /\ calls[c].pc = "idle"
  /\ LET n == nonceNext(nonceState) IN
     /\ n.nonce < MaxNonce
     /\ nonceState' = n.state
     /\ calls' = [calls EXCEPT ![c] =
          [pc |-> "signing", kind |-> kind, key |-> <<n.apiKeyIndex>>,
           nonce |-> <<n.nonce>>,
           orderId |-> IF kind = "cancelAllOrders" THEN <<>> ELSE <<id>>,
           acked |-> <<>>]]
  /\ ordersEmitted' = FALSE
  /\ UNCHANGED <<authValid, orderMap, lastOrdersEvent, lastApplied>>
  /\ TxFrame

\* The call throws before nonceManager.next(): mapCreateOrderParams rejects
\* the parameters, the market index is unknown, BigInt(orderId) fails.
CallRejected(c, kind) ==
  /\ calls[c].pc = "idle"
  /\ kind \in {"createOrder", "cancelOrder"}
  /\ calls' = [calls EXCEPT ![c] = [IdleCall EXCEPT !.pc = "failed", !.kind = kind]]
  /\ ordersEmitted' = FALSE
  /\ UNCHANGED <<nonceState, authValid, orderMap, lastOrdersEvent,
                 lastApplied>>
  /\ TxFrame

SignOk(c) ==
  /\ calls[c].pc = "signing"
  /\ calls' = [calls EXCEPT ![c].pc = "auth"]
  /\ ordersEmitted' = FALSE
  /\ UNCHANGED <<nonceState, authValid, orderMap, lastOrdersEvent,
                 lastApplied>>
  /\ TxFrame

\* ensureAuthToken: the cached token, or a new one from the signer
AuthOk(c) ==
  /\ calls[c].pc = "auth"
  /\ calls' = [calls EXCEPT ![c].pc = "sending"]
  /\ authValid' = TRUE
  /\ ordersEmitted' = FALSE
  /\ UNCHANGED <<nonceState, orderMap, lastOrdersEvent, lastApplied>>
  /\ TxFrame

\* The token passes its expiry (minus the safety buffer)
AuthExpire ==
  /\ authValid
  /\ authValid' = FALSE
  /\ ordersEmitted' = FALSE
  /\ UNCHANGED <<nonceState, calls, orderMap, lastOrdersEvent,
                 lastApplied>>
  /\ TxFrame

C2mut_catchHandler(kind, key) == IF kind = "cancelAllOrders" THEN <<>> ELSE <<key>>

\* The catch block of the three operations: the keys it passes to
\* nonceManager.acknowledgeFailure before rethrowing.
catchHandler(kind, key) ==
  CASE kind = "createOrder" -> <<key>>
    [] kind = "cancelOrder" -> <<key>>
    [] kind = "cancelAllOrders" -> <<key>>

RECURSIVE acknowledgeAll(_, _)
acknowledgeAll(ns, keys) ==
  IF keys = <<>> THEN ns
  ELSE acknowledgeAll(acknowledgeFailure(ns, Head(keys)), Tail(keys))

\* An await of the try block rejects: the catch block runs and the error
\* reaches the caller.
Throw(c) ==
  LET acks == catchHandler(calls[c].kind, calls[c].key[1]) IN
  /\ nonceState' = acknowledgeAll(nonceState, acks)
  /\ calls' = [calls EXCEPT ![c].pc = "failed", ![c].acked = acks]
  /\ ordersEmitted' = FALSE
  /\ UNCHANGED <<authValid, orderMap, lastOrdersEvent, lastApplied>>
  /\ TxFrame

SignFail(c) ==
  /\ calls[c].pc = "signing"
  /\ Throw(c)

\* signer.createAuthToken throws; only reached without a valid cached token
AuthFail(c) ==
  /\ calls[c].pc = "auth"
  /\ ~authValid
  /\ Throw(c)

SendFail(c) ==
  /\ calls[c].pc = "sending"
  /\ Throw(c)

\* cancelOrder after sendTransaction: this.orderMap.delete(String(orderId))
cancelSuccess(map, id) == [map EXCEPT ![id] = <<>>]

\* sendTransaction resolves: the exchange has accepted the transaction.
SendOk(c) ==
  /\ calls[c].pc = "sending"
  /\ IF calls[c].kind = "cancelOrder"
     THEN /\ orderMap' = cancelSuccess(orderMap, calls[c].orderId[1])
          /\ lastApplied' = [lastApplied EXCEPT ![calls[c].orderId[1]] = <<>>]
          /\ ordersEmitted' = TRUE
          /\ lastOrdersEvent' = orderMap'
          /\ calls' = [calls EXCEPT ![c].pc = "done"]
     ELSE /\ calls' = [calls EXCEPT ![c].pc = "done"]
          /\ ordersEmitted' = FALSE
          /\ UNCHANGED <<orderMap, lastOrdersEvent, lastApplied>>
  /\ UNCHANGED <<nonceState, authValid>>
  /\ TxFrame

\* The caller has seen the outcome; the slot serves the next call.
CallReturn(c) ==
  /\ calls[c].pc \in {"done", "failed"}
  /\ calls' = [calls EXCEPT ![c] = IdleCall]
  /\ ordersEmitted' = FALSE
  /\ UNCHANGED <<nonceState, authValid, orderMap, lastOrdersEvent,
                 lastApplied>>
  /\ TxFrame

InitTx ==
  /\ nonceState = nonceInit
  /\ calls = [c \in Calls |-> IdleCall]
  /\ authValid = TRUE
  /\ orderMap = [id \in OrderIds |-> <<>>]
  /\ ordersEmitted = TRUE      \* initialize() ends with emitOrders()
  /\ lastOrdersEvent = [id \in OrderIds |-> <<>>]
  /\ lastApplied = [id \in OrderIds |-> <<>>]

\* Concurrent submissions (no stream traffic)
NextSubmit ==
  \/ \E c \in Calls, kind \in CallKinds : CallBegin(c, kind, 1)
  \/ \E c \in Calls, kind \in CallKinds : CallRejected(c, kind)
  \/ \E c \in Calls : SignOk(c)
  \/ \E c \in Calls : SignFail(c)
  \/ \E c \in Calls : AuthOk(c)
  \/ \E c \in Calls : AuthFail(c)
  \/ AuthExpire
  \/ \E c \in Calls : SendOk(c)
  \/ \E c \in Calls : SendFail(c)
  \/ \E c \in Calls : CallReturn(c)

\* One submission at a time, interleaved with the order stream
NextOrders ==
  \/ \E kind \in CallKinds, id \in OrderIds : CallBegin(1, kind, id)
  \/ \E kind \in CallKinds : CallRejected(1, kind)
  \/ SignOk(1)
  \/ SignFail(1)
  \/ AuthOk(1)
  \/ AuthFail(1)
  \/ AuthExpire
  \/ SendOk(1)
  \/ SendFail(1)
  \/ CallReturn(1)
  \/ \E batch \in Batches : HandleAccountOrders(batch)

(***************************************************************************)
(* AsterGateway: live orders (mergeOrderSnapshot, the onOrder handler,     *)
(* createOrder, cancelOrder, cancelOrders, cancelAllOrders, the open-order *)
(* refresh).                                                               *)
(***************************************************************************)
MaxAsterBatch == 1   \* orders in one REST list (open orders, batch cancel)

AsterStatuses == {"NEW", "PARTIALLY_FILLED", "FILLED", "CANCELED", "REJECTED", "EXPIRED"}

\* client.ts:42
FINAL_ORDER_STATUSES == {"FILLED", "CANCELED", "REJECTED", "EXPIRED"}

\* A raw order of a REST response: orderId and status may be missing
AsterRawOrders == [orderId : Opt(OrderIds), status : Opt(AsterStatuses)]

\* toOrderFromRest: status: raw.status ?? "NEW"
toOrderFromRest(raw) ==
  [orderId |-> raw.orderId, status |-> IF raw.status = <<>> THEN <<"NEW">> ELSE raw.status]

\* toOrderFromEvent: orderId: event.i, status: event.X
toOrderFromEvent(payload) == [orderId |-> payload.i, status |-> payload.X]

AsterEvents == [i : Opt(OrderIds), X : Opt(AsterStatuses)]

mergeOrderSnapshot(map, order) ==
  IF order.orderId = <<>> THEN map
  ELSE IF order.status # <<>> /\ order.status[1] \in FINAL_ORDER_STATUSES
       THEN [map EXCEPT ![order.orderId[1]] = <<>>]
       ELSE [map EXCEPT ![order.orderId[1]] = <<order>>]

RECURSIVE mergeOrderSnapshots(_, _)
mergeOrderSnapshots(map, list) ==
  IF list = <<>> THEN map
  ELSE mergeOrderSnapshots(mergeOrderSnapshot(map, Head(list)), Tail(list))

AsterLists == UNION {[1..n -> AsterRawOrders] : n \in 0..MaxAsterBatch}

AsterFrame == UNCHANGED <<txVars, bookVars, accountVars, wsVars, rateVars, listenerVars,
  pollVars, decimalVars, lateVars>>

\* The map is written and the orders event emitted
AsterWrite(op, id, map) ==
  /\ openOrders' = map
  /\ asterOrdersEmitted' = TRUE
  /\ lastAsterOrdersEvent' = map
  /\ lastAsterCall' = <<[op |-> op, orderId |-> id, ok |-> TRUE,
                         changed |-> (map # openOrders)]>>

\* The REST request rejects: the operation throws before it touches the map
AsterThrow(op, id) ==
  /\ asterOrdersEmitted' = FALSE
  /\ lastAsterCall' = <<[op |-> op, orderId |-> id, ok |-> FALSE, changed |-> FALSE]>>
  /\ UNCHANGED <<openOrders, lastAsterOrdersEvent>>

\* userStream.onOrder handler
AsterOnOrder(event) ==
  /\ AsterWrite("onOrder", event.i,
                mergeOrderSnapshot(openOrders, toOrderFromEvent(event)))
  /\ AsterFrame

\* createOrder: rest.createOrder resolves with the response raw
AsterCreateOrder(raw) ==
  /\ AsterWrite("createOrder", raw.orderId,
                mergeOrderSnapshot(openOrders, toOrderFromRest(raw)))
  /\ AsterFrame

\* cancelOrder({orderId: id}): rest.cancelOrder resolves with the response raw,
\* which names the order or carries no orderId
AsterCancelOrder(id, raw) ==
  /\ raw.orderId \in {<<>>, <<id>>}
  /\ AsterWrite("cancelOrder", <<id>>,
                mergeOrderSnapshot(openOrders, toOrderFromRest(raw)))
  /\ AsterFrame

\* cancelOrders: rest.cancelOrders resolves with a list
AsterCancelOrders(list) ==
  /\ AsterWrite("cancelOrders", <<>>,
                mergeOrderSnapshots(openOrders,
                                    [i \in 1..Len(list) |-> toOrderFromRest(list[i])]))
  /\ AsterFrame

\* cancelAllOrders({symbol}): every order of the symbol is deleted
AsterCancelAllOrders ==
  /\ AsterWrite("cancelAllOrders", <<>>, [id \in OrderIds |-> <<>>])
  /\ AsterFrame

\* The open-order refresh: clear, then merge rest.getOpenOrders()
AsterRefreshOpenOrders(list) ==
  /\ AsterWrite("refresh", <<>>,
                mergeOrderSnapshots([id \in OrderIds |-> <<>>], list))
  /\ AsterFrame

\* createOrder, cancelOrder, cancelOrders or cancelAllOrders rejects
AsterCallFails(op, id) ==
  /\ (op = "cancelOrder") = (id # <<>>)
  /\ AsterThrow(op, id)
  /\ AsterFrame

AsterOps == {"createOrder", "cancelOrder", "cancelOrders", "cancelAllOrders"}

InitAster ==
  /\ openOrders = [id \in OrderIds |-> <<>>]
  /\ asterOrdersEmitted = FALSE
  /\ lastAsterOrdersEvent = [id \in OrderIds |-> <<>>]
  /\ lastAsterCall = <<>>

NextAster ==
  \/ \E event \in AsterEvents : AsterOnOrder(event)
  \/ \E raw \in AsterRawOrders : AsterCreateOrder(raw)
  \/ \E id \in OrderIds, raw \in AsterRawOrders : AsterCancelOrder(id, raw)
  \/ \E list \in AsterLists : AsterCancelOrders(list)
  \/ AsterCancelAllOrders
  \/ \E list \in AsterLists : AsterRefreshOpenOrders(
                                [i \in 1..Len(list) |-> toOrderFromRest(list[i])])
  \/ \E op \in AsterOps, id \in Opt(OrderIds) : AsterCallFails(op, id)

(***************************************************************************)
(* Claims about submissions and live orders.                               *)
(***************************************************************************)
\* A call holds its (apiKeyIndex, nonce) pair while it is in flight and once
\* the exchange has accepted it.
HoldsPair(c) == calls[c].pc \in InFlight \cup {"done"}
PairOf(c) == <<calls[c].key[1], calls[c].nonce[1]>>

\* C1: under any interleaving of createOrder, cancelOrder and cancelAllOrders
\* calls, failing ones included, no two calls that are in flight or accepted
\* are signed with the same (apiKeyIndex, nonce) pair.
C1_NoncePairsDistinct ==
  \A c, d \in Calls :
    (c # d /\ HoldsPair(c) /\ HoldsPair(d)) => PairOf(c) # PairOf(d)

\* C2: a call that fails after nonceManager.next() has called
\* acknowledgeFailure exactly once, for its own apiKeyIndex, when the error
\* reaches the caller; a call that succeeds has not called it.
C2_AckExactlyOnceOnFailure ==
  \A c \in Calls :
    /\ (calls[c].pc = "failed" /\ calls[c].nonce # <<>>)
          => calls[c].acked = <<calls[c].key[1]>>
    /\ calls[c].pc = "done" => calls[c].acked = <<>>

\* A cancelAllOrders call has failed after it took a nonce, while another call
\* holds a nonce.
C2_Witness ==
  \E c, d \in Calls :
    /\ c # d
    /\ calls[c].pc = "failed" /\ calls[c].nonce # <<>>
    /\ calls[c].kind = "cancelAllOrders"
    /\ HoldsPair(d)

\* The next() that returns key k, after the next() calls for the keys the
\* round-robin selects before it
RECURSIVE followingNext(_, _)
followingNext(ns, k) ==
  IF nonceNext(ns).apiKeyIndex = k THEN nonceNext(ns)
  ELSE followingNext(nonceNext(ns).state, k)

\* C27: with no other submission in flight for key k, when next() has
\* returned nonce n for k and acknowledgeFailure(k) is called, the following
\* next() for k returns n again; without acknowledgeFailure, successive next()
\* calls for k return strictly increasing nonces.
C27_NonceReusedAfterFailure ==
  \A k \in Keys :
    LET first == followingNext(nonceState, k)
        reused == followingNext(acknowledgeFailure(first.state, k), k)
        second == followingNext(first.state, k)
    IN /\ reused.nonce = first.nonce
       /\ second.nonce > first.nonce

\* A call has failed and acknowledged its key, and a later call holds the
\* same key and nonce.
C27_Witness ==
  \E c, d \in Calls :
    /\ c # d
    /\ calls[c].pc = "failed"
    /\ calls[c].nonce # <<>>
    /\ calls[c].acked = <<calls[c].key[1]>>
    /\ HoldsPair(d)
    /\ calls[d].key = calls[c].key
    /\ calls[d].nonce = calls[c].nonce

\* The terminal statuses of the specification's data model
SpecTerminalStatuses == {"filled", "canceled", "rejected", "expired"}

\* C3: the live-order map holds no order whose status is terminal (filled,
\* canceled, rejected or expired).
C3_NoTerminalOrderInMap ==
  \A id \in OrderIds :
    orderMap[id] # <<>> => toLowerCase(orderMap[id][1].status) \notin SpecTerminalStatuses

\* C4: when the last update applied to an order is terminal the order is
\* absent from the live-order map, and when it is not terminal the order is
\* present with that update's content.
C4_LastWriteWins ==
  \A id \in OrderIds :
    lastApplied[id] # <<>> =>
      IF toLowerCase(lastApplied[id][1].status) \in SpecTerminalStatuses
      THEN orderMap[id] = <<>>
      ELSE orderMap[id] = lastApplied[id]

\* C5: when cancelOrder(id) has succeeded, id is not in the gateway's
\* live-order set and an orders event without it was emitted; when it has
\* failed, the set was left unchanged and no orders event was emitted.  Here
\* for the Aster gateway, right after the call.
C5_CancelOptimisticRemoval ==
  (lastAsterCall # <<>> /\ lastAsterCall[1].op = "cancelOrder")
  => IF lastAsterCall[1].ok
     THEN /\ openOrders[lastAsterCall[1].orderId[1]] = <<>>
          /\ asterOrdersEmitted
          /\ lastAsterOrdersEvent[lastAsterCall[1].orderId[1]] = <<>>
     ELSE ~lastAsterCall[1].changed /\ ~asterOrdersEmitted

\* C5 for the Lighter gateway: the step in which cancelOrder(id) succeeds
\* removes id from the live-order map and emits an orders event without it;
\* the step in which cancelOrder fails leaves the map unchanged and emits no
\* orders event.
C5_LighterCancelRemoves ==
  [][\A c \in Calls :
       /\ (calls[c].pc = "sending" /\ calls[c].kind = "cancelOrder"
           /\ calls'[c].pc = "done")
            => /\ orderMap'[calls[c].orderId[1]] = <<>>
               /\ ordersEmitted'
               /\ lastOrdersEvent'[calls[c].orderId[1]] = <<>>
       /\ (calls[c].pc # "failed" /\ calls'[c].pc = "failed"
           /\ calls'[c].kind = "cancelOrder")
            => /\ orderMap' = orderMap
               /\ ~ordersEmitted']_vars

\* C6: the step in which createOrder succeeds puts the returned order record
\* in the live-order map and emits an orders event that holds it.
C6_CreatedOrderIsLive ==
  [][\A c \in Calls :
       (calls[c].pc = "sending" /\ calls[c].kind = "createOrder"
        /\ calls'[c].pc = "done")
         => /\ orderMap'[calls[c].orderId[1]] # <<>>
            /\ ordersEmitted'
            /\ lastOrdersEvent'[calls[c].orderId[1]] # <<>>]_vars

(***************************************************************************)
(* Order book: handleOrderBookSnapshot, handleOrderBookUpdate, mergeLevels,*)
(* sortAndTrimLevels.                                                      *)
(***************************************************************************)
MaxOffset == 2    \* largest offset a message carries
MaxTicks == 1     \* clock ticks after the start
MaxLevels == 2    \* levels one side of a message carries
DepthLimit == 1   \* sortAndTrimLevels' limit (200 in the program)

Offsets == 0..MaxOffset
\* Date.now() and event timestamps are far above any offset
T0 == MaxOffset + 1
Times == T0..(T0 + MaxTicks)
Prices == {1, 2, 3}
Sizes == {0, 1, 2}
Levels == [price : Prices, size : Sizes]
Sides == {"bid", "ask"}

\* Number(x ?? 0) of an optional number
NumberOr0(x) == IF x = <<>> THEN 0 ELSE x[1]

\* normalizeLevels: every entry becomes a {price, size} object
normalizeLevels(raw) == [i \in 1..Len(raw) |-> [price |-> raw[i].price, size |-> raw[i].size]]

\* The comparator of sortAndTrimLevels: a sorts strictly before b
Before(a, b, side) == IF side = "bid" THEN a.price > b.price ELSE a.price < b.price

\* Array.prototype.sort is stable: insert x after the last element that does
\* not sort after it.
RECURSIVE insertStable(_, _, _)
insertStable(sorted, x, side) ==
  IF sorted = <<>> THEN <<x>>
  ELSE IF Before(x, Head(sorted), side) THEN <<x>> \o sorted
       ELSE <<Head(sorted)>> \o insertStable(Tail(sorted), x, side)

RECURSIVE sortStable(_, _)
sortStable(list, side) ==
  IF list = <<>> THEN <<>>
  ELSE insertStable(sortStable(SubSeq(list, 1, Len(list) - 1), side), list[Len(list)], side)

Max2(a, b) == IF a > b THEN a ELSE b
Min2(a, b) == IF a < b THEN a ELSE b

\* list.sort(by price); list.slice(0, Math.max(1, limit))
sortAndTrimLevels(levels, side) ==
  LET list == sortStable(levels, side) IN
  SubSeq(list, 1, Min2(Len(list), Max2(1, DepthLimit)))

\* A Map<price, size> in insertion order, as a sequence of levels
mapSet(map, price, size) ==
  IF \E i \in 1..Len(map) : map[i].price = price
  THEN [i \in 1..Len(map) |->
          IF map[i].price = price THEN [price |-> price, size |-> size] ELSE map[i]]
  ELSE Append(map, [price |-> price, size |-> size])

mapDelete(map, price) == SelectSeq(map, LAMBDA l : l.price # price)

RECURSIVE mapOf(_, _)
mapOf(map, existing) ==
  IF existing = <<>> THEN map
  ELSE mapOf(mapSet(map, Head(existing).price, Head(existing).size), Tail(existing))

C8mut_applyUpdate(map, update) ==
  IF \E i \in 1..Len(map) : map[i].price = update.price
  THEN [i \in 1..Len(map) |->
          IF map[i].price = update.price
          THEN [price |-> update.price, size |-> map[i].size + update.size]
          ELSE map[i]]
  ELSE mapSet(map, update.price, update.size)

\* One iteration of mergeLevels' loop over the updates
applyUpdate(map, update) ==
  IF update.size <= 0 THEN mapDelete(map, update.price)
  ELSE mapSet(map, update.price, update.size)

RECURSIVE applyUpdates(_, _)
applyUpdates(map, updates) ==
  IF updates = <<>> THEN map
  ELSE applyUpdates(applyUpdate(map, Head(updates)), Tail(updates))

mergeLevels(existing, updates) == applyUpdates(mapOf(<<>>, existing), updates)

\* The gateway's order-book state
BookState == [book |-> orderBook, lastOffset |-> lastOrderBookOffset,
              lastTs |-> lastOrderBookTimestamp]

\* Number(message.offset ?? message.order_book?.offset ?? 0)
incomingOffset(m) ==
  NumberOr0(Coalesce(m.offset,
                     IF m.order_book = <<>> THEN <<>> ELSE m.order_book[1].offset))

incomingTs(m) == NumberOr0(m.timestamp)

\* The two early returns that drop a stale or duplicate message
staleGuard(st, m) ==
  \/ (st.lastOffset # 0 /\ incomingOffset(m) # 0 /\ incomingOffset(m) < st.lastOffset)
  \/ (incomingOffset(m) = st.lastOffset /\ incomingTs(m) # 0
      /\ incomingTs(m) <= st.lastTs)

Dropped(st) == [st |-> st, depth |-> FALSE, ticker |-> FALSE]

\* emitDepth and emitSyntheticTicker for the book b (the market id is known)
Emitted(st) ==
  [st |-> st, depth |-> TRUE,
   ticker |-> (st.book[1].bids # <<>> \/ st.book[1].asks # <<>>)]

handleOrderBookSnapshot(st, m, now) ==
  IF m.order_book = <<>> THEN Dropped(st)
  ELSE IF staleGuard(st, m) THEN Dropped(st)
  ELSE
    LET ob == m.order_book[1]
        snapshot == [offset |-> IF ob.offset # <<>> THEN ob.offset[1] ELSE now,
                     bids |-> sortAndTrimLevels(
                                normalizeLevels(IF ob.bids # <<>> THEN ob.bids[1] ELSE <<>>), "bid"),
                     asks |-> sortAndTrimLevels(
                                normalizeLevels(IF ob.asks # <<>> THEN ob.asks[1] ELSE <<>>), "ask")]
    IN Emitted([book |-> <<snapshot>>,
                lastOffset |-> snapshot.offset,
                lastTs |-> IF incomingTs(m) # 0 THEN incomingTs(m) ELSE now])

handleOrderBookUpdate(st, m, now) ==
  IF st.book = <<>> THEN Dropped(st)
  ELSE IF staleGuard(st, m) THEN Dropped(st)
  ELSE IF m.order_book = <<>> THEN Dropped(st)
  ELSE
    LET update == m.order_book[1]
        old == st.book[1]
        asks == IF update.asks # <<>>
                THEN sortAndTrimLevels(mergeLevels(old.asks, normalizeLevels(update.asks[1])), "ask")
                ELSE old.asks
        bids == IF update.bids # <<>>
                THEN sortAndTrimLevels(mergeLevels(old.bids, normalizeLevels(update.bids[1])), "bid")
                ELSE old.bids
        offset == IF update.offset # <<>> THEN update.offset[1] ELSE old.offset
    IN Emitted([book |-> <<[offset |-> offset, bids |-> bids, asks |-> asks]>>,
                lastOffset |-> offset,
                lastTs |-> IF incomingTs(m) # 0 THEN incomingTs(m) ELSE now])

\* handleMessage's dispatch on message.type
handleBookMessage(st, m, now) ==
  IF m.type = "subscribed/order_book" THEN handleOrderBookSnapshot(st, m, now)
  ELSE handleOrderBookUpdate(st, m, now)

BookFrame == UNCHANGED <<txVars, asterVars, accountVars, wsVars, rateVars, listenerVars,
  pollVars, decimalVars, lateVars>>

\* message.offset ?? message.order_book?.offset, before the ?? 0
statedOffset(m) ==
  Coalesce(m.offset, IF m.order_book = <<>> THEN <<>> ELSE m.order_book[1].offset)

\* A message of the order_book channel arrives
HandleBookMessage(m) ==
  \E r \in {handleBookMessage(BookState, m, clock)} :
    /\ orderBook' = r.st.book
    /\ lastOrderBookOffset' = r.st.lastOffset
    /\ lastOrderBookTimestamp' = r.st.lastTs
    /\ depthEmitted' = r.depth
    /\ tickerEmitted' = r.ticker
    /\ lastBookMsg' = <<[type |-> m.type, offset |-> statedOffset(m),
                         prevOffset |-> lastOrderBookOffset,
                         changed |-> (r.st # BookState)]>>
    /\ awaitingSnapshot' = "no"
    /\ UNCHANGED clock
    /\ BookFrame

\* Time passes
Tick ==
  /\ clock < T0 + MaxTicks
  /\ clock' = clock + 1
  /\ depthEmitted' = FALSE
  /\ tickerEmitted' = FALSE
  /\ UNCHANGED <<orderBook, lastOrderBookOffset, lastOrderBookTimestamp, lastBookMsg,
                 awaitingSnapshot>>
  /\ BookFrame

\* The connection is lost and a reconnect has subscribed again: cleanup(),
\* scheduleReconnect() and openWebSocket() leave the book, the last applied
\* offset and the last applied timestamp as they are
BookReconnect ==
  /\ awaitingSnapshot = "no"
  /\ awaitingSnapshot' = "reconnect"
  /\ depthEmitted' = FALSE
  /\ tickerEmitted' = FALSE
  /\ UNCHANGED <<orderBook, lastOrderBookOffset, lastOrderBookTimestamp, clock,
                 lastBookMsg>>
  /\ BookFrame

BookTypes == {"subscribed/order_book", "update/order_book"}

L(p, s) == [price |-> p, size |-> s]

SideLevels == UNION {[1..n -> Levels] : n \in 0..MaxLevels}
OneLevel == {<<>>} \cup {<<l>> : l \in Levels}

\* Messages that vary the offsets and timestamps, over a few bodies
OffsetBodies ==
  {<<>>} \cup
  {<<[offset |-> o, bids |-> b, asks |-> a]>> :
     o \in Opt(Offsets),
     b \in {<<>>, << <<L(1, 1)>> >>},
     a \in {<<>>, << <<L(3, 1)>> >>}}

OffsetMsgs ==
  [type : BookTypes, offset : Opt(Offsets), timestamp : Opt(Times),
   order_book : OffsetBodies]

\* Messages that vary the levels: one side with up to MaxLevels levels, or
\* both sides with at most one level each
LevelBodies ==
  {<<[offset |-> <<>>, bids |-> <<b>>, asks |-> <<>>]>> : b \in SideLevels}
  \cup
  {<<[offset |-> <<>>, bids |-> <<>>, asks |-> <<a>>]>> : a \in SideLevels}
  \cup
  {<<[offset |-> <<>>, bids |-> <<b>>, asks |-> <<a>>]>> : b \in OneLevel, a \in OneLevel}

LevelMsgs ==
  [type : BookTypes, offset : {<<>>}, timestamp : {<<>>},
   order_book : LevelBodies]

InitBook ==
  /\ orderBook = <<>>
  /\ lastOrderBookOffset = 0
  /\ lastOrderBookTimestamp = 0
  /\ clock = T0
  /\ depthEmitted = FALSE
  /\ tickerEmitted = FALSE
  /\ lastBookMsg = <<>>
  /\ awaitingSnapshot = "initial"

NextBook ==
  \/ \E m \in OffsetMsgs : HandleBookMessage(m)
  \/ Tick
  \/ BookReconnect

NextBookMerge ==
  \E m \in LevelMsgs : HandleBookMessage(m)

(***************************************************************************)
(* Claims on the order book.                                               *)
(***************************************************************************)
BookUnchangedAndSilent ==
  /\ ~lastBookMsg[1].changed
  /\ ~depthEmitted
  /\ ~tickerEmitted

\* C7: a snapshot or update message whose offset is lower than the last
\* applied offset leaves the book, the last applied offset and timestamp
\* unchanged and emits no depth or ticker event.
C7_LowerOffsetDropped ==
  (/\ lastBookMsg # <<>>
   /\ lastBookMsg[1].offset # <<>>
   /\ lastBookMsg[1].offset[1] < lastBookMsg[1].prevOffset)
  => BookUnchangedAndSilent

\* C7 for the offsets the guard can see: a message whose offset is not zero
\* and is lower than the last applied offset changes and emits nothing.
C7_NonZeroLowerOffsetDropped ==
  (/\ lastBookMsg # <<>>
   /\ lastBookMsg[1].offset # <<>>
   /\ lastBookMsg[1].offset[1] # 0
   /\ lastBookMsg[1].offset[1] < lastBookMsg[1].prevOffset)
  => BookUnchangedAndSilent

SidesOf(st) == IF st.book = <<>> THEN <<>> ELSE <<st.book[1].bids, st.book[1].asks>>

UpdateMsgs == {m \in LevelMsgs \cup OffsetMsgs : m.type = "update/order_book"}

\* C8: in every reachable book state, delivering the same order-book delta
\* twice in a row leaves the same bids and asks as delivering it once.
C8_DeltaIdempotent ==
  \A m \in UpdateMsgs : \A later \in {clock, clock + 1} :
    LET once == handleOrderBookUpdate(BookState, m, clock).st
        twice == handleOrderBookUpdate(once, m, later).st
    IN SidesOf(twice) = SidesOf(once)

\* A delta has just changed a book that has levels on both sides, and some
\* delta would change its levels again.
C8_Witness ==
  /\ lastBookMsg # <<>>
  /\ lastBookMsg[1].type = "update/order_book"
  /\ lastBookMsg[1].changed
  /\ orderBook # <<>>
  /\ orderBook[1].bids # <<>>
  /\ orderBook[1].asks # <<>>
  /\ \E m \in UpdateMsgs :
       SidesOf(handleOrderBookUpdate(BookState, m, clock).st) # SidesOf(BookState)

\* C28: a snapshot or update whose offset equals the last applied offset is
\* applied only if its timestamp is strictly greater than the last applied
\* timestamp; otherwise the book, the last applied offset and timestamp stay
\* unchanged and nothing is emitted.
C28_EqualOffsetNeedsNewerTimestamp ==
  orderBook # <<>> =>
    \A m \in OffsetMsgs :
      (/\ statedOffset(m) # <<>>
       /\ statedOffset(m)[1] = lastOrderBookOffset
       /\ ~(m.timestamp # <<>> /\ m.timestamp[1] > lastOrderBookTimestamp))
      => handleBookMessage(BookState, m, clock) = Dropped(BookState)

\* C28 for messages that carry a timestamp: with the last applied offset and
\* a timestamp that is not greater than the last applied one, the message
\* changes and emits nothing.
C28_TimestampedEqualOffsetDropped ==
  orderBook # <<>> =>
    \A m \in OffsetMsgs :
      (/\ statedOffset(m) # <<>>
       /\ statedOffset(m)[1] = lastOrderBookOffset
       /\ m.timestamp # <<>>
       /\ m.timestamp[1] <= lastOrderBookTimestamp)
      => handleBookMessage(BookState, m, clock) = Dropped(BookState)

\* A message with the last applied offset and an older or equal timestamp
\* has just been dropped.
C28_Witness ==
  /\ lastBookMsg # <<>>
  /\ lastBookMsg[1].offset # <<>>
  /\ lastBookMsg[1].offset[1] = lastBookMsg[1].prevOffset
  /\ lastBookMsg[1].prevOffset > 0
  /\ BookUnchangedAndSilent

DistinctPrices(levels) ==
  \A i, j \in 1..Len(levels) : i # j => levels[i].price # levels[j].price

NoLevelAt(levels, p) == \A i \in 1..Len(levels) : levels[i].price # p

OneLevelAt(levels, p, size) ==
  /\ Cardinality({i \in 1..Len(levels) : levels[i].price = p}) = 1
  /\ \E i \in 1..Len(levels) : levels[i] = [price |-> p, size |-> size]

Unnamed(levels, delta) == SelectSeq(levels, LAMBDA l : NoLevelAt(delta, l.price))

IsPrefix(a, b) == Len(a) <= Len(b) /\ a = SubSeq(b, 1, Len(a))

Truncated200(levels) == Len(levels) = Max2(1, DepthLimit)

\* The levels the delta does not name are the old ones, up to truncation
UnnamedKept(old, delta, new) ==
  /\ IsPrefix(Unnamed(new, delta), Unnamed(old, delta))
  /\ Unnamed(new, delta) # Unnamed(old, delta) => Truncated200(new)

DeltaAsStated(old, delta, new) ==
  /\ \A i \in 1..Len(delta) :
       IF delta[i].size <= 0 THEN NoLevelAt(new, delta[i].price)
       ELSE OneLevelAt(new, delta[i].price, delta[i].size)
  /\ UnnamedKept(old, delta, new)

DeltaAsStatedUpToDepth(old, delta, new) ==
  /\ \A i \in 1..Len(delta) :
       IF delta[i].size <= 0 THEN NoLevelAt(new, delta[i].price)
       ELSE \/ OneLevelAt(new, delta[i].price, delta[i].size)
            \/ NoLevelAt(new, delta[i].price) /\ Truncated200(new)
  /\ UnnamedKept(old, delta, new)

\* The deltas that name every price once
Deltas ==
  {m \in LevelMsgs :
     /\ m.type = "update/order_book"
     /\ m.order_book[1].bids # <<>> => DistinctPrices(m.order_book[1].bids[1])
     /\ m.order_book[1].asks # <<>> => DistinctPrices(m.order_book[1].asks[1])}

SideAsStated(old, carried, new, AsStated(_, _, _)) ==
  IF carried = <<>> THEN new = old ELSE AsStated(old, carried[1], new)

\* C29: applying an accepted delta, a level (p, s) of the delta with s <= 0
\* leaves no level at p and any other leaves exactly one level at p with
\* size s; the levels at prices the delta does not name, and a side the
\* delta does not carry, are unchanged apart from depth truncation.
C29_DeltaAppliedAsStated ==
  orderBook # <<>> =>
    \A m \in Deltas :
      LET r == handleOrderBookUpdate(BookState, m, clock) IN
      r.depth =>
        /\ SideAsStated(orderBook[1].bids, m.order_book[1].bids, r.st.book[1].bids,
                        DeltaAsStated)
        /\ SideAsStated(orderBook[1].asks, m.order_book[1].asks, r.st.book[1].asks,
                        DeltaAsStated)

\* C29 with the depth truncation applied to the levels of the delta too: a
\* level (p, s) with s > 0 is present once with size s unless the side is
\* full and p was cut off.
C29_DeltaAppliedUpToDepth ==
  orderBook # <<>> =>
    \A m \in Deltas :
      LET r == handleOrderBookUpdate(BookState, m, clock) IN
      r.depth =>
        /\ SideAsStated(orderBook[1].bids, m.order_book[1].bids, r.st.book[1].bids,
                        DeltaAsStatedUpToDepth)
        /\ SideAsStated(orderBook[1].asks, m.order_book[1].asks, r.st.book[1].asks,
                        DeltaAsStatedUpToDepth)

Sorted(levels, side) ==
  \A i \in 1..(Len(levels) - 1) : ~Before(levels[i + 1], levels[i], side)

WellFormedSide(levels, side) ==
  /\ Sorted(levels, side)
  /\ DistinctPrices(levels)
  /\ \A i \in 1..Len(levels) : levels[i].size > 0
  /\ Len(levels) <= DepthLimit

WellFormedBook(book) ==
  book # <<>> =>
    WellFormedSide(book[1].bids, "bid") /\ WellFormedSide(book[1].asks, "ask")

\* C30: in every reachable state the bids are sorted by price descending and
\* the asks ascending, no side holds two levels with the same price, every
\* level has size > 0, and each side holds at most the maximum depth.
C30_BookWellFormed == WellFormedBook(orderBook)

\* C30, order and depth: each side is sorted and holds at most the maximum
\* depth.
C30_SortedAndTrimmed ==
  orderBook # <<>> =>
    /\ Sorted(orderBook[1].bids, "bid") /\ Len(orderBook[1].bids) <= DepthLimit
    /\ Sorted(orderBook[1].asks, "ask") /\ Len(orderBook[1].asks) <= DepthLimit

\* C30 for deltas: a delta applied to a well-formed book leaves a well-formed
\* book.
C30_DeltaKeepsWellFormed ==
  WellFormedBook(orderBook) =>
    \A m \in UpdateMsgs : WellFormedBook(handleOrderBookUpdate(BookState, m, clock).st.book)

\* The offset a book state carries in its offset field (none without a book).
BookOffsetOf(st) == IF st.book = <<>> THEN <<>> ELSE <<st.book[1].offset>>

\* C31: the last applied offset (lastOrderBookOffset and the book's offset
\* field) never decreases over any sequence of snapshot and update messages,
\* and after each accepted message it equals that message's offset.
C31_OffsetNeverDecreases ==
  \A m \in OffsetMsgs :
    LET r == handleBookMessage(BookState, m, clock) IN
    /\ r.st.lastOffset >= lastOrderBookOffset
    /\ (orderBook # <<>> => r.st.book[1].offset >= orderBook[1].offset)
    /\ (r.depth /\ statedOffset(m) # <<>>) =>
         (/\ r.st.lastOffset = statedOffset(m)[1]
          /\ r.st.book[1].offset = statedOffset(m)[1])

\* The messages whose offset the guards and the stored offset agree on: the
\* body states an offset that is not zero, and the message itself states
\* none or the same one.
OffsetStatedOnce(m) ==
  /\ m.order_book # <<>>
  /\ m.order_book[1].offset # <<>>
  /\ m.order_book[1].offset[1] # 0
  /\ m.offset \in {<<>>, m.order_book[1].offset}

\* C31 for those messages: the last applied offset does not decrease, and an
\* accepted message leaves its offset as the last applied one and in the
\* book.
C31_StatedOnceNeverDecreases ==
  \A m \in OffsetMsgs :
    OffsetStatedOnce(m) =>
      LET r == handleBookMessage(BookState, m, clock) IN
      /\ r.st.lastOffset >= lastOrderBookOffset
      /\ r.depth => (/\ r.st.lastOffset = statedOffset(m)[1]
                     /\ BookOffsetOf(r.st) = statedOffset(m))

\* The two fields hold the same offset whenever there is a book.
C31_FieldsAgree ==
  orderBook # <<>> => orderBook[1].offset = lastOrderBookOffset

\* The snapshot messages that carry a book
SnapshotMsgs ==
  {m \in OffsetMsgs : m.type = "subscribed/order_book" /\ m.order_book # <<>>}

\* The snapshot m replaces the book and is emitted
SnapshotApplied(m) ==
  LET r == handleOrderBookSnapshot(BookState, m, clock) IN
  /\ r.depth
  /\ r.st.book # <<>>
  /\ r.st.book[1].bids =
       sortAndTrimLevels(normalizeLevels(IF m.order_book[1].bids # <<>> THEN m.order_book[1].bids[1] ELSE <<>>), "bid")
  /\ r.st.book[1].asks =
       sortAndTrimLevels(normalizeLevels(IF m.order_book[1].asks # <<>> THEN m.order_book[1].asks[1] ELSE <<>>), "ask")

\* C35: after a reconnect, the first order-book snapshot received on the new
\* connection replaces the local book and is emitted, whatever offset and
\* timestamp were last applied on the previous connection.
C35_FirstSnapshotAfterReconnect ==
  awaitingSnapshot = "reconnect" => \A m \in SnapshotMsgs : SnapshotApplied(m)

\* C35 for the snapshots the guards let through: the first snapshot after a
\* reconnect is applied when its offset is greater than the last applied one,
\* or is the last applied one with a greater timestamp.
C35_NewerSnapshotAfterReconnect ==
  awaitingSnapshot = "reconnect" =>
    \A m \in SnapshotMsgs :
      (\/ incomingOffset(m) > lastOrderBookOffset
       \/ (incomingOffset(m) = lastOrderBookOffset
           /\ incomingTs(m) > lastOrderBookTimestamp))
      => SnapshotApplied(m)

\* The first snapshot of the first connection is applied.
C35_FirstSnapshotOfSession ==
  awaitingSnapshot = "initial" => \A m \in SnapshotMsgs : SnapshotApplied(m)

\* A reconnect has happened after a snapshot with a non-zero offset was
\* applied.
C35_ReconnectWitness ==
  /\ awaitingSnapshot = "reconnect"
  /\ orderBook # <<>>
  /\ lastOrderBookOffset > 0

(***************************************************************************)
(* Account positions: handleAccountAll, handleAccountMarket,               *)
(* refreshAccountSnapshot.                                                 *)
(***************************************************************************)
MaxPositions == 2   \* positions carried by one account_all message

Markets == {1, 2}
Signs == {-1, 0, 1}
PositionSizes == {0, 1}

\* A position of a message: market_id undefined stands for any value that
\* Number() does not turn into a finite number.
PositionRecs == [market_id : Opt(Markets), sign : Opt(Signs), position : Opt(PositionSizes)]

Abs(x) == IF x < 0 THEN -x ELSE x

C9mut_shouldRemove(p) == NumberOr0(p.sign) = 0

\* sign === 0 || Math.abs(size) < 1e-12
shouldRemove(p) == NumberOr0(p.sign) = 0 \/ Abs(NumberOr0(p.position)) = 0

\* Map<number, LighterPosition> in insertion order, as a sequence of positions
byMarketSet(map, p) ==
  IF \E i \in 1..Len(map) : map[i].market_id = p.market_id
  THEN [i \in 1..Len(map) |-> IF map[i].market_id = p.market_id THEN p ELSE map[i]]
  ELSE Append(map, p)

byMarketDelete(map, mid) == SelectSeq(map, LAMBDA q : q.market_id # mid)

RECURSIVE byMarketOf(_, _)
byMarketOf(map, existing) ==
  IF existing = <<>> THEN map
  ELSE byMarketOf(IF Head(existing).market_id = <<>> THEN map
                  ELSE byMarketSet(map, Head(existing)),
                  Tail(existing))

RECURSIVE mergeIncoming(_, _)
mergeIncoming(map, incoming) ==
  IF incoming = <<>> THEN map
  ELSE LET p == Head(incoming) IN
       mergeIncoming(IF p.market_id = <<>> THEN map
                     ELSE IF shouldRemove(p) THEN byMarketDelete(map, p.market_id)
                     ELSE byMarketSet(map, p),
                     Tail(incoming))

\* message.positions is absent (<<>>) or a list; null counts as the empty list
handleAccountAll(pos, message) ==
  IF message.positions = <<>> THEN pos
  ELSE mergeIncoming(byMarketOf(<<>>, pos), message.positions[1])

handleAccountMarket(pos, message) ==
  IF message.position = <<>> \/ message.position[1].market_id = <<>> THEN pos
  ELSE LET position == message.position[1] IN
       IF shouldRemove(position) THEN byMarketDelete(pos, position.market_id)
       ELSE IF \E i \in 1..Len(pos) : pos[i].market_id = position.market_id
            THEN [i \in 1..Len(pos) |->
                    IF pos[i].market_id = position.market_id THEN position ELSE pos[i]]
            ELSE Append(pos, position)

\* handleAccountMarket returns before emitAccount when there is no usable position
accountMarketEmits(message) ==
  message.position # <<>> /\ message.position[1].market_id # <<>>

MarketsOf(pos) == {pos[i].market_id[1] : i \in 1..Len(pos)}

AccountAllMsgs ==
  [positions : {<<>>} \cup {<<l>> : l \in UNION {[1..n -> PositionRecs] : n \in 0..MaxPositions}}]

AccountMarketMsgs == [position : Opt(PositionRecs)]

AccountFrame == UNCHANGED <<txVars, asterVars, bookVars, wsVars, rateVars, listenerVars,
  pollVars, decimalVars, lateVars>>

\* The bookkeeping every account action does
AccountStep(kind, after, emits) ==
  /\ positions' = after
  /\ accountEmitted' = (emits /\ accountDetails)
  /\ lastAccountMsg' = <<[type |-> kind, before |-> MarketsOf(positions)]>>
  /\ removedMarkets' = removedMarkets \cup (MarketsOf(positions) \ MarketsOf(after))
  /\ UNCHANGED accountDetails

\* A subscribed/account_all or update/account_all message arrives
HandleAccountAll(message) ==
  /\ AccountStep("account_all", handleAccountAll(positions, message), TRUE)
  /\ AccountFrame

\* A subscribed/account_market or update/account_market message arrives
HandleAccountMarket(message) ==
  /\ AccountStep("account_market", handleAccountMarket(positions, message),
                 accountMarketEmits(message))
  /\ AccountFrame

\* refreshAccountSnapshot completes: with the account's details, with none
\* (the empty fallback account), or with an error that is only logged
RefreshAccountSnapshot(outcome) ==
  /\ accountDetails' = (accountDetails \/ outcome # "error")
  /\ positions' = IF outcome = "none" THEN <<>> ELSE positions
  /\ accountEmitted' = (outcome # "error")
  /\ lastAccountMsg' = <<[type |-> "refresh", before |-> MarketsOf(positions)]>>
  /\ UNCHANGED removedMarkets
  /\ AccountFrame

RefreshOutcomes == {"details", "none", "error"}

InitAccount ==
  /\ positions = <<>>
  /\ accountDetails = FALSE
  /\ accountEmitted = FALSE
  /\ lastAccountMsg = <<>>
  /\ removedMarkets = {}

NextAccount ==
  \/ \E message \in AccountAllMsgs : HandleAccountAll(message)
  \/ \E message \in AccountMarketMsgs : HandleAccountMarket(message)
  \/ \E outcome \in RefreshOutcomes : RefreshAccountSnapshot(outcome)

(***************************************************************************)
(* Claims on the account positions.                                        *)
(***************************************************************************)
\* No stored position has zero signed size, and no market has two positions.
PositionsWellFormed(pos) ==
  /\ \A i \in 1..Len(pos) :
       NumberOr0(pos[i].sign) # 0 /\ NumberOr0(pos[i].position) # 0
  /\ \A i, j \in 1..Len(pos) : pos[i].market_id = pos[j].market_id => i = j

\* The last position of the list that names the market, if any
LastFor(incoming, market) ==
  LET idx == {i \in 1..Len(incoming) : incoming[i].market_id = <<market>>} IN
  IF idx = {} THEN <<>>
  ELSE <<incoming[CHOOSE i \in idx : \A k \in idx : k <= i]>>

\* What the positions after a message must be for one market, given the
\* update u the message carries for it
UpdateHonoured(after, market, u) ==
  IF NumberOr0(u.sign) = 0 \/ NumberOr0(u.position) = 0
  THEN market \notin MarketsOf(after)
  ELSE \E i \in 1..Len(after) : after[i] = u

\* C9: an account_all or account_market update with zero signed size removes
\* the market's position, a non-zero update (also after a removal) stores it,
\* and the position set never holds a zero-size position or two positions of
\* one market.
C9_PositionsReconciled ==
  /\ PositionsWellFormed(positions)
  /\ \A message \in AccountMarketMsgs : \A market \in Markets :
       (message.position # <<>> /\ message.position[1].market_id = <<market>>)
       => UpdateHonoured(handleAccountMarket(positions, message), market,
                         message.position[1])
  /\ \A message \in AccountAllMsgs : \A market \in Markets :
       (message.positions # <<>> /\ LastFor(message.positions[1], market) # <<>>)
       => UpdateHonoured(handleAccountAll(positions, message), market,
                         LastFor(message.positions[1], market)[1])

\* One message has removed the position of one market and stored a position
\* for another market that an earlier update had removed.
C9_Witness ==
  /\ lastAccountMsg # <<>>
  /\ lastAccountMsg[1].type \in {"account_all", "account_market"}
  /\ \E removed \in lastAccountMsg[1].before : removed \notin MarketsOf(positions)
  /\ \E readded \in removedMarkets :
       readded \notin lastAccountMsg[1].before /\ readded \in MarketsOf(positions)

(***************************************************************************)
(* Push connection: ensureInitialized, openWebSocket, subscribeChannels,   *)
(* scheduleReconnect, startHeartbeat, stopHeartbeat.                       *)
(***************************************************************************)
NumSockets == 2   \* sockets whose events are still awaited at the same time
MaxWsClock == 2   \* clock ticks of the session
StaleAfter == 1   \* ticks of silence the heartbeat tolerates (20 s in the program)

SocketIds == 1..NumSockets

\* A slot no socket uses: nothing of the program listens to it or awaits it.
\* A connecting socket is the current one (this.ws) until one of its own
\* handlers runs cleanup(), so subscribeChannels finds it open.
NoSocket ==
  [readyState |-> "CLOSED", listeners |-> FALSE, promise |-> "none",
   subscribing |-> FALSE, via |-> "none"]

\* The socket's slot can be taken by a new socket
Unused(s) == ~sockets[s].listeners /\ ~sockets[s].subscribing

\* The session is ready: the current socket is open and its subscriptions are sent
Ready ==
  /\ ws # <<>>
  /\ sockets[ws[1]].readyState = "OPEN"
  /\ sockets[ws[1]].promise = "resolved"

WsFrame == UNCHANGED <<txVars, asterVars, bookVars, accountVars, rateVars, listenerVars,
  pollVars, decimalVars, lateVars>>

\* this.stopHeartbeat()
stopHeartbeat == FALSE

\* this.scheduleReconnect(): a timer is pending afterwards
scheduleReconnect == TRUE

\* setTimeout(..., 2000)
RECONNECT_DELAY_MS == 2000

\* The delay of the pending timer after this.scheduleReconnect(): a pending
\* timer is left as it is
scheduleReconnectDelay == IF reconnectTimer THEN reconnectDelay ELSE RECONNECT_DELAY_MS

C37mut_scheduleReconnectCount(n) == n + 1

\* The timeouts pending after this.scheduleReconnect(), n of them pending
\* before: if (this.reconnectTimer) return; this.reconnectTimer = setTimeout(...)
scheduleReconnectCount(n) == IF reconnectTimer THEN n ELSE n + 1

C12mut_authChannels == {"account_market"}

\* The channels subscribeChannels() subscribes to before and after it awaits
\* the auth token
publicChannels == {"order_book", "account_all"}
authChannels == {"account_market", "account_all_orders"}
Channels == publicChannels \cup authChannels

\* ws.send of subscribe requests for the channels chs on socket t
send(subs, t, chs) == [subs EXCEPT ![t] = @ \cup chs]

C13mut_stale(now, last) == now - last >= StaleAfter

\* The heartbeat's test: now - this.lastMessageAt > WS_STALE_TIMEOUT_MS
stale(now, last) == now - last > StaleAfter

\* No heartbeat tick in this step
NoHeartbeat == heartbeat' = "none"

\* cleanup() of socket s: removeAllListeners, stopHeartbeat, forget the socket
cleanup(socks, s) == [socks EXCEPT ![s].listeners = FALSE]
cleanupWs(s) == IF ws = <<s>> THEN <<>> ELSE ws

\* fail(error): settles the promise of openWebSocket as rejected, once
fail(socks, s) ==
  IF socks[s].promise = "pending" THEN [socks EXCEPT ![s].promise = "rejected"] ELSE socks

\* initialize()'s promise rejects with openWebSocket's: connectPromise = null
connectPromiseAfterFail(s) ==
  IF sockets[s].promise = "pending" /\ sockets[s].via = "init" THEN FALSE ELSE connectPromise

C11mut_afterFailedOpen(s) == scheduleReconnect

\* What a close or error event before ready leaves of the reconnect timer:
\* the handler returns after fail() without scheduling anything
afterFailedOpen(s) == reconnectTimer

\* The body of the "close" and "error" handlers of socket s
closeHandler(s) ==
  /\ heartbeatTimer' = stopHeartbeat
  /\ ws' = cleanupWs(s)
  /\ IF sockets[s].promise = "pending"
     THEN /\ reconnectTimer' = afterFailedOpen(s)
          /\ reconnectDelay' = IF afterFailedOpen(s) THEN scheduleReconnectDelay ELSE 0
          /\ reconnectTimers' = IF afterFailedOpen(s) /\ ~reconnectTimer
                                THEN scheduleReconnectCount(reconnectTimers)
                                ELSE reconnectTimers
          /\ connectPromise' = connectPromiseAfterFail(s)
     ELSE /\ reconnectTimer' = scheduleReconnect
          /\ reconnectDelay' = scheduleReconnectDelay
          /\ reconnectTimers' = scheduleReconnectCount(reconnectTimers)
          /\ UNCHANGED connectPromise
  /\ NoHeartbeat
  /\ UNCHANGED <<subscribed, subTarget>>

\* openWebSocket(): nothing when the current socket is open or connecting,
\* a new connecting socket otherwise
openWebSocket(via) ==
  IF ws # <<>> /\ sockets[ws[1]].readyState \in {"OPEN", "CONNECTING"}
  THEN /\ UNCHANGED <<ws, sockets, subscribed, subTarget>>
       /\ initialized' = (initialized \/ via = "init")
  ELSE /\ \E s \in SocketIds :
            /\ Unused(s)
            /\ \A t \in SocketIds : Unused(t) => s <= t
            /\ sockets' = [sockets EXCEPT ![s] =
                             [readyState |-> "CONNECTING", listeners |-> TRUE,
                              promise |-> "pending", subscribing |-> FALSE, via |-> via]]
            /\ ws' = <<s>>
            /\ subscribed' = [subscribed EXCEPT ![s] = {}]
            /\ subTarget' = [subTarget EXCEPT ![s] = <<>>]
       /\ UNCHANGED initialized

\* A caller runs ensureInitialized() before the gateway is initialized
EnsureInitialized ==
  /\ ~initialized
  /\ ~connectPromise
  /\ connectPromise' = TRUE
  /\ openWebSocket("init")
  /\ NoHeartbeat
  /\ UNCHANGED <<reconnectTimer, heartbeatTimer, lastMessageAt, wsClock,
                 serverAccepts, everReady, reconnectDelay, reconnectTimers>>
  /\ WsFrame

\* The reconnect timer fires
ReconnectFire ==
  /\ reconnectTimer
  /\ reconnectTimer' = FALSE
  /\ openWebSocket("reconnect")
  /\ reconnectDelay' = 0
  /\ reconnectTimers' = reconnectTimers - 1
  /\ NoHeartbeat
  /\ UNCHANGED <<heartbeatTimer, lastMessageAt, wsClock, connectPromise,
                 serverAccepts, everReady>>
  /\ WsFrame

\* subscribeChannels(): const ws = this.ws; if (!ws || ws.readyState !== OPEN)
\* return.  The socket the call sends on, none when the call returns at once.
subscribeTarget(socks, w) ==
  IF w # <<>> /\ socks[w[1]].readyState = "OPEN" THEN w ELSE <<>>

\* The "open" event of socket s: the heartbeat starts, subscribeChannels sends
\* the public subscriptions and awaits the auth token
SocketOpen(s) ==
  /\ sockets[s].readyState = "CONNECTING"
  /\ lastMessageAt' = wsClock
  /\ heartbeatTimer' = TRUE
  /\ sockets' = [sockets EXCEPT ![s].readyState = "OPEN", ![s].subscribing = TRUE]
  /\ subTarget' = [subTarget EXCEPT ![s] = subscribeTarget(sockets', ws)]
  /\ subscribed' = IF subTarget'[s] = <<>> THEN subscribed
                   ELSE send(subscribed, subTarget'[s][1], publicChannels)
  /\ NoHeartbeat
  /\ UNCHANGED <<reconnectDelay, reconnectTimers>>
  /\ UNCHANGED <<ws, reconnectTimer, wsClock, initialized, connectPromise,
                 serverAccepts, everReady>>
  /\ WsFrame

\* subscribeChannels returns, after the subscriptions that carry the auth
\* token if it had not returned at once: settled = true; resolve()
SubscribeDone(s) ==
  /\ sockets[s].subscribing
  /\ subscribed' = IF subTarget[s] = <<>> THEN subscribed
                   ELSE send(subscribed, subTarget[s][1], authChannels)
  /\ NoHeartbeat
  /\ UNCHANGED <<subTarget, reconnectDelay, reconnectTimers>>
  /\ sockets' = [sockets EXCEPT ![s].subscribing = FALSE,
                                ![s].promise = IF @ = "pending" THEN "resolved" ELSE @]
  /\ initialized' = (initialized \/ (sockets[s].promise = "pending" /\ sockets[s].via = "init"))
  /\ everReady' = (everReady \/ (sockets[s].promise = "pending" /\ ws = <<s>>
                                 /\ sockets[s].readyState = "OPEN"))
  /\ UNCHANGED <<ws, reconnectTimer, heartbeatTimer, lastMessageAt, wsClock,
                 connectPromise, serverAccepts>>
  /\ WsFrame

\* subscribeChannels throws (the auth token cannot be created): cleanup(); fail()
SubscribeFail(s) ==
  /\ sockets[s].subscribing
  /\ subTarget[s] # <<>>
  /\ ~serverAccepts
  /\ NoHeartbeat
  /\ UNCHANGED <<subscribed, subTarget, reconnectDelay, reconnectTimers>>
  /\ sockets' = fail(cleanup([sockets EXCEPT ![s].subscribing = FALSE], s), s)
  /\ heartbeatTimer' = stopHeartbeat
  /\ ws' = cleanupWs(s)
  /\ connectPromise' = connectPromiseAfterFail(s)
  /\ UNCHANGED <<reconnectTimer, lastMessageAt, wsClock, initialized,
                 serverAccepts, everReady>>
  /\ WsFrame

\* The connection attempt of socket s fails: its "error" event
ConnectFail(s) ==
  /\ sockets[s].readyState = "CONNECTING"
  /\ ~serverAccepts
  /\ sockets' = fail(cleanup([sockets EXCEPT ![s].readyState = "CLOSED"], s), s)
  /\ closeHandler(s)
  /\ UNCHANGED <<lastMessageAt, wsClock, initialized, serverAccepts, everReady>>
  /\ WsFrame

\* The open socket s drops: its "close" event. A server that accepts every
\* attempt does not drop a socket before it is ready.
SocketDrop(s) ==
  /\ sockets[s].readyState = "OPEN"
  /\ sockets[s].listeners
  /\ serverAccepts => sockets[s].promise # "pending"
  /\ sockets' = fail(cleanup([sockets EXCEPT ![s].readyState = "CLOSED"], s), s)
  /\ closeHandler(s)
  /\ UNCHANGED <<lastMessageAt, wsClock, initialized, serverAccepts, everReady>>
  /\ WsFrame

\* The "close" event of a socket the heartbeat has terminated
CloseEvent(s) ==
  /\ sockets[s].readyState = "CLOSING"
  /\ sockets[s].listeners
  /\ sockets' = fail(cleanup([sockets EXCEPT ![s].readyState = "CLOSED"], s), s)
  /\ closeHandler(s)
  /\ UNCHANGED <<lastMessageAt, wsClock, initialized, serverAccepts, everReady>>
  /\ WsFrame

\* The heartbeat interval fires: nothing without an open current socket,
\* terminate and reconnect when the socket is stale, a ping otherwise
HeartbeatTick ==
  /\ heartbeatTimer
  /\ IF ws = <<>> \/ sockets[ws[1]].readyState # "OPEN"
     THEN /\ heartbeat' = "idle"
          /\ UNCHANGED <<sockets, heartbeatTimer, reconnectTimer, reconnectDelay,
                         reconnectTimers>>
     ELSE IF stale(wsClock, lastMessageAt)
          THEN /\ sockets' = [sockets EXCEPT ![ws[1]].readyState = "CLOSING"]
               /\ heartbeatTimer' = stopHeartbeat
               /\ reconnectTimer' = scheduleReconnect
               /\ reconnectDelay' = scheduleReconnectDelay
               /\ reconnectTimers' = scheduleReconnectCount(reconnectTimers)
               /\ heartbeat' = "terminate"
          ELSE /\ heartbeat' = "ping"
               /\ UNCHANGED <<sockets, heartbeatTimer, reconnectTimer, reconnectDelay,
                              reconnectTimers>>
  /\ UNCHANGED <<subscribed, subTarget>>
  /\ UNCHANGED <<ws, lastMessageAt, wsClock, initialized, connectPromise,
                 serverAccepts, everReady>>
  /\ WsFrame

\* A "pong" event, or a "message" event whose type no handler is bound to
\* ("connected"), on the open socket s
MessageEvent(s) ==
  /\ sockets[s].readyState = "OPEN"
  /\ sockets[s].listeners
  /\ lastMessageAt # wsClock
  /\ lastMessageAt' = wsClock
  /\ UNCHANGED <<ws, sockets, reconnectTimer, heartbeatTimer, wsClock, initialized,
                 connectPromise, serverAccepts, everReady>>
  /\ NoHeartbeat
  /\ UNCHANGED <<subscribed, subTarget, reconnectDelay, reconnectTimers>>
  /\ WsFrame

\* Time passes
WsTick ==
  /\ wsClock < MaxWsClock
  /\ wsClock' = wsClock + 1
  /\ UNCHANGED <<ws, sockets, reconnectTimer, heartbeatTimer, lastMessageAt,
                 initialized, connectPromise, serverAccepts, everReady>>
  /\ NoHeartbeat
  /\ UNCHANGED <<subscribed, subTarget, reconnectDelay, reconnectTimers>>
  /\ WsFrame

\* From now on the server accepts every connection attempt
ServerRecovers ==
  /\ ~serverAccepts
  /\ serverAccepts' = TRUE
  /\ UNCHANGED <<ws, sockets, reconnectTimer, heartbeatTimer, lastMessageAt, wsClock,
                 initialized, connectPromise, everReady>>
  /\ NoHeartbeat
  /\ UNCHANGED <<subscribed, subTarget, reconnectDelay, reconnectTimers>>
  /\ WsFrame

InitWs ==
  /\ ws = <<>>
  /\ sockets = [s \in SocketIds |-> NoSocket]
  /\ reconnectTimer = FALSE
  /\ heartbeatTimer = FALSE
  /\ lastMessageAt = 0
  /\ wsClock = 0
  /\ initialized = FALSE
  /\ connectPromise = FALSE
  /\ serverAccepts = FALSE
  /\ everReady = FALSE
  /\ subscribed = [s \in SocketIds |-> {}]
  /\ subTarget = [s \in SocketIds |-> <<>>]
  /\ reconnectDelay = 0
  /\ reconnectTimers = 0
  /\ heartbeat = "none"

NextWs ==
  \/ EnsureInitialized
  \/ ReconnectFire
  \/ \E s \in SocketIds : SocketOpen(s)
  \/ \E s \in SocketIds : SubscribeDone(s)
  \/ \E s \in SocketIds : SubscribeFail(s)
  \/ \E s \in SocketIds : ConnectFail(s)
  \/ \E s \in SocketIds : SocketDrop(s)
  \/ \E s \in SocketIds : CloseEvent(s)
  \/ HeartbeatTick
  \/ \E s \in SocketIds : MessageEvent(s)
  \/ WsTick
  \/ ServerRecovers

\* Timers fire, a connecting socket gets its open event unless the attempt
\* fails first, an awaited subscription returns, a terminated socket closes.
WsFairness ==
  /\ WF_vars(ReconnectFire)
  /\ WF_vars(HeartbeatTick)
  /\ \A s \in SocketIds :
       /\ WF_vars(SocketOpen(s))
       /\ WF_vars(SubscribeDone(s))
       /\ WF_vars(CloseEvent(s))

(***************************************************************************)
(* Claims on the push connection.                                          *)
(***************************************************************************)
\* C10: after a connection that had reached ready is dropped, and once the
\* server accepts every connection attempt, the session eventually is ready
\* again without any caller action, also when reconnect attempts in between
\* have failed before reaching ready.
C10_ReadyAgainAfterDrop ==
  (everReady /\ serverAccepts /\ ~Ready) ~> Ready

\* The step is the "close" or "error" handler of socket s
CloseOrErrorOf(s) ==
  /\ sockets[s].listeners
  /\ ~sockets'[s].listeners
  /\ sockets'[s].readyState = "CLOSED"

\* C11: a close or error event on a socket that has reached ready leaves a
\* reconnect timer pending that was armed with the 2000 ms delay; a close or
\* error event on a socket that has not reached ready rejects the pending
\* promise of openWebSocket and schedules no reconnect.
C11_CloseSchedulesReconnectOnlyWhenReady ==
  [][\A s \in SocketIds :
       CloseOrErrorOf(s) =>
         IF sockets[s].promise = "resolved"
         THEN reconnectTimer' /\ reconnectDelay' = 2000
         ELSE /\ sockets[s].promise = "pending"
              /\ sockets'[s].promise = "rejected"
              /\ reconnectTimer' = reconnectTimer
              /\ reconnectDelay' = reconnectDelay]_vars

\* A ready socket has closed and the reconnect timer is pending, while an
\* earlier attempt was rejected before it was ready
C11_Witness ==
  /\ reconnectTimer
  /\ reconnectDelay = 2000
  /\ \E s \in SocketIds :
       /\ sockets[s].promise = "resolved"
       /\ sockets[s].readyState = "CLOSED"
       /\ ~sockets[s].listeners
       /\ sockets[s].via = "reconnect"
  /\ ~connectPromise

\* C12: on every connection, initial or reconnect, the promise of
\* openWebSocket is resolved only after the subscribe requests of all four
\* channels were sent on that connection's socket.
C12_ReadyOnlyAfterSubscriptions ==
  \A s \in SocketIds :
    sockets[s].promise = "resolved" =>
      subscribed[s] = {"order_book", "account_all", "account_market", "account_all_orders"}

\* A reconnect has reached ready on its own socket
C12_Witness ==
  \E s \in SocketIds :
    /\ sockets[s].via = "reconnect"
    /\ sockets[s].promise = "resolved"
    /\ sockets[s].readyState = "OPEN"
    /\ ws = <<s>>
    /\ Cardinality(subscribed[s]) = 4

\* C13: a heartbeat tick while the current socket is open force-closes the
\* socket, stops the heartbeat, schedules a reconnect and sends no ping when
\* more than the stale timeout has passed since the last inbound message or
\* pong; otherwise it sends a ping and leaves the connection as it is.
C13_HeartbeatTerminatesOrPings ==
  [][(heartbeat' # "none" /\ ws # <<>> /\ sockets[ws[1]].readyState = "OPEN")
       => IF wsClock - lastMessageAt > StaleAfter
          THEN /\ sockets'[ws[1]].readyState \in {"CLOSING", "CLOSED"}
               /\ ~heartbeatTimer'
               /\ reconnectTimer'
               /\ heartbeat' # "ping"
          ELSE /\ heartbeat' = "ping"
               /\ sockets' = sockets
               /\ ws' = ws
               /\ heartbeatTimer'
               /\ reconnectTimer' = reconnectTimer]_vars

\* A tick has terminated a ready socket that had gone stale
C13_Witness ==
  /\ heartbeat = "terminate"
  /\ wsClock - lastMessageAt > StaleAfter
  /\ ~heartbeatTimer
  /\ reconnectTimer
  /\ ws # <<>>
  /\ sockets[ws[1]].promise = "resolved"
  /\ sockets[ws[1]].readyState = "CLOSING"

\* The step takes socket s out of open/ready: the socket was open with the
\* gateway's listeners on it, and afterwards it is not open or has lost them.
LeavesOpen(s) ==
  /\ sockets[s].readyState = "OPEN"
  /\ sockets[s].listeners
  /\ (sockets'[s].readyState # "OPEN" \/ ~sockets'[s].listeners)

\* C32: after every transition out of open/ready (close event, error event,
\* stale-heartbeat termination, failed subscription) the heartbeat timer is
\* not running and the listeners of that socket are removed, so that no
\* message from that socket is handled afterwards.
C32_ResourcesReleased ==
  [][\A s \in SocketIds :
       LeavesOpen(s) => (~heartbeatTimer' /\ ~sockets'[s].listeners)]_vars

\* C32 for the heartbeat timer: every transition out of open/ready leaves no
\* heartbeat timer running.
C32_HeartbeatStopped ==
  [][\A s \in SocketIds : LeavesOpen(s) => ~heartbeatTimer']_vars

\* C32 for the listeners: a close or error event, and a failed subscription,
\* remove the listeners of the socket; a socket that is closed has none.
C32_ListenersRemovedOnCleanup ==
  [][\A s \in SocketIds :
       (LeavesOpen(s) /\ heartbeat' # "terminate") => ~sockets'[s].listeners]_vars

C32_ClosedSocketHasNoListeners ==
  \A s \in SocketIds : sockets[s].readyState = "CLOSED" => ~sockets[s].listeners

\* The heartbeat has terminated a stale socket whose close event is not yet
\* delivered: the socket still carries the gateway's listeners.
C32_TerminatedWitness ==
  /\ heartbeat = "terminate"
  /\ \E s \in SocketIds : sockets[s].readyState = "CLOSING" /\ sockets[s].listeners

\* C36: whenever the gateway's current socket is open, a heartbeat timer is
\* running for it, under every interleaving of heartbeat ticks, reconnect
\* timer firings and socket events, including a close event of a terminated
\* socket that is delivered after the replacement socket has opened.
C36_OpenSocketHasHeartbeat ==
  (ws # <<>> /\ sockets[ws[1]].readyState = "OPEN") => heartbeatTimer

\* C36 without late events: a socket has its heartbeat timer when it opens,
\* and the timer of an open current socket is stopped only by a step of
\* another socket (its close or error event, or the end of its subscription).
C36_HeartbeatStoppedOnlyByOtherSocket ==
  [][\A c \in SocketIds :
       (ws' = <<c>> /\ sockets'[c].readyState = "OPEN" /\ ~heartbeatTimer') =>
         (/\ ws = <<c>>
          /\ sockets[c].readyState = "OPEN"
          /\ heartbeatTimer => \E s \in SocketIds \ {c} : sockets'[s] # sockets[s])]_vars

\* The heartbeat has terminated a socket, the reconnect has opened its
\* replacement, and the close event of the terminated socket is still to come.
C36_LateCloseWitness ==
  /\ ws # <<>>
  /\ sockets[ws[1]].readyState = "OPEN"
  /\ heartbeatTimer
  /\ \E s \in SocketIds : s # ws[1] /\ sockets[s].readyState = "CLOSING" /\ sockets[s].listeners

\* The sockets of the gateway that are connecting or open with their handlers
\* still attached
LiveSockets ==
  {s \in SocketIds : sockets[s].readyState \in {"CONNECTING", "OPEN"} /\ sockets[s].listeners}

\* C37: at any time at most one socket the gateway created is CONNECTING or
\* OPEN with live listeners, and at most one reconnect timer is pending, under
\* every interleaving of close and error events, stale-heartbeat terminations
\* and firings of the reconnect timer.
C37_OneLiveSocketOneTimer ==
  /\ Cardinality(LiveSockets) <= 1
  /\ reconnectTimers <= 1
  /\ reconnectTimer <=> (reconnectTimers = 1)
  /\ \A s \in LiveSockets : ws = <<s>>

\* A replacement socket is live and a reconnect timer is pending: the close
\* event of the socket it replaced was delivered after it was created
C37_Witness ==
  /\ \E s \in LiveSockets : \E t \in SocketIds \ {s} :
        sockets[t].readyState = "CLOSED" /\ sockets[t].via # "none"
  /\ reconnectTimers = 1

(***************************************************************************)
(* RateLimitController (src/src/core/lib/rate-limit.ts).                   *)
(***************************************************************************)
MaxBaseInterval == 2   \* largest baseInterval a controller is built with
MaxPauseMs == 2        \* largest pauseMs
MaxRecoveryMs == 2     \* largest recoveryMs
MaxRateTicks == 4      \* clock ticks after the controller is built

\* Date.now() at construction: far larger than any interval, as lastCycleAt
\* and lastRateLimitAt start at 0
RateEpoch == 2 * MaxBaseInterval + MaxRecoveryMs

RateLimitStates == {"normal", "degraded", "paused"}

\* The fields after the constructor
newController(baseInterval, pauseMs, recoveryMs) ==
  [built |-> TRUE, state |-> "normal", pausedUntil |-> <<>>, lastCycleAt |-> 0,
   lastRateLimitAt |-> 0, entriesSuppressed |-> FALSE,
   baseInterval |-> baseInterval, pauseMs |-> pauseMs, recoveryMs |-> recoveryMs]

\* No controller has been built yet
NoController == [newController(0, 0, 0) EXCEPT !.built = FALSE]

shouldBlockEntries(c) == c.entriesSuppressed \/ c.state = "paused"

C18mut_suppressEntries(c) == c

suppressEntries(c) ==
  IF c.entriesSuppressed THEN c ELSE [c EXCEPT !.entriesSuppressed = TRUE]

allowEntries(c) ==
  IF ~c.entriesSuppressed THEN c ELSE [c EXCEPT !.entriesSuppressed = FALSE]

C17mut_currentInterval(c) == c.baseInterval

currentInterval(c) ==
  IF c.state = "degraded" THEN c.baseInterval * 2
  ELSE IF c.state = "paused" THEN c.baseInterval * 2
  ELSE c.baseInterval

C15mut_pauseElapsed(c, now) == c.pausedUntil # <<>> /\ now > c.pausedUntil[1]

\* this.pausedUntil != null && now >= this.pausedUntil
pauseElapsed(c, now) == c.pausedUntil # <<>> /\ now >= c.pausedUntil[1]

\* The interval test that ends beforeCycle()
cycleDecision(c, now) ==
  IF now - c.lastCycleAt < currentInterval(c)
  THEN [c |-> c, ret |-> "skip"]
  ELSE [c |-> [c EXCEPT !.lastCycleAt = now], ret |-> "run"]

\* beforeCycle(): the fields afterwards and the decision returned
beforeCycle(c, now) ==
  IF c.state = "paused"
  THEN IF pauseElapsed(c, now)
       THEN cycleDecision([c EXCEPT !.state = "degraded", !.pausedUntil = <<>>], now)
       ELSE [c |-> [c EXCEPT !.lastCycleAt = now], ret |-> "paused"]
  ELSE cycleDecision(c, now)

C14mut_registerRateLimit(c, now) ==
  suppressEntries([c EXCEPT !.lastRateLimitAt = now, !.state = "paused",
                            !.pausedUntil = <<now + c.pauseMs>>])

\* registerRateLimit(source): the fields afterwards
registerRateLimit(c, now) ==
  IF c.state = "normal"
  THEN suppressEntries([c EXCEPT !.lastRateLimitAt = now, !.state = "degraded",
                                 !.lastCycleAt = now])
  ELSE IF c.state = "degraded"
  THEN suppressEntries([c EXCEPT !.lastRateLimitAt = now, !.state = "paused",
                                 !.pausedUntil = <<now + c.pauseMs>>])
  ELSE suppressEntries([c EXCEPT !.lastRateLimitAt = now,
                                 !.pausedUntil = <<now + c.pauseMs>>])

\* The first if of onCycleComplete
recover(c, now) ==
  IF c.state = "degraded" /\ c.lastRateLimitAt > 0
     /\ now - c.lastRateLimitAt >= c.recoveryMs
  THEN [allowEntries([c EXCEPT !.state = "normal"]) EXCEPT !.lastRateLimitAt = 0]
  ELSE c

\* onCycleComplete(hadRateLimit): the fields afterwards
onCycleComplete(c, hadRateLimit, now) ==
  IF hadRateLimit THEN c
  ELSE LET d == recover(c, now)
       IN IF d.state = "normal" /\ d.entriesSuppressed /\ d.lastRateLimitAt = 0
          THEN allowEntries(d) ELSE d

RateFrame == UNCHANGED <<txVars, asterVars, bookVars, accountVars, wsVars, listenerVars,
  pollVars, decimalVars, lateVars>>

\* The call op at the present time, with the fields before it and its result
rateCall(op, arg, ret) ==
  <<[op |-> op, arg |-> arg, at |-> rateNow, pre |-> controller, ret |-> ret,
     phase |-> scenario]>>

\* When the controller entered the degraded state, if the call made it do so
enteredDegraded(c) ==
  IF c.state = "degraded" /\ controller.state # "degraded" THEN rateNow ELSE degradedSince

\* new RateLimitController(baseInterval, log, {pauseMs, recoveryMs})
NewRateLimitController(baseInterval, pauseMs, recoveryMs) ==
  /\ ~controller.built
  /\ controller' = newController(baseInterval, pauseMs, recoveryMs)
  /\ UNCHANGED <<rateNow, lastRateCall, degradedSince, scenario>>
  /\ RateFrame

BeforeCycle ==
  /\ controller.built
  /\ \E r \in {beforeCycle(controller, rateNow)} :
       /\ controller' = r.c
       /\ lastRateCall' = rateCall("beforeCycle", FALSE, r.ret)
       /\ degradedSince' = enteredDegraded(r.c)
       /\ scenario' = IF scenario = "paused" /\ r.ret # "paused" THEN r.ret ELSE scenario
  /\ UNCHANGED rateNow
  /\ RateFrame

RegisterRateLimit ==
  /\ controller.built
  /\ \E c \in {registerRateLimit(controller, rateNow)} :
       /\ controller' = c
       /\ degradedSince' = enteredDegraded(c)
  /\ lastRateCall' = rateCall("registerRateLimit", FALSE, "none")
  /\ scenario' = IF controller.state = "normal" THEN "hit"
                 ELSE IF scenario = "none" THEN "none" ELSE "paused"
  /\ UNCHANGED rateNow
  /\ RateFrame

OnCycleComplete(hadRateLimit) ==
  /\ controller.built
  /\ \E c \in {onCycleComplete(controller, hadRateLimit, rateNow)} :
       /\ controller' = c
       /\ degradedSince' = enteredDegraded(c)
       /\ scenario' = IF hadRateLimit THEN scenario
                      ELSE IF scenario \in {"run", "skip"} /\ ~shouldBlockEntries(c)
                      THEN "resumed"
                      ELSE IF scenario = "hit" \/ c.state = "normal" THEN "none"
                      ELSE scenario
  /\ lastRateCall' = rateCall("onCycleComplete", hadRateLimit, "none")
  /\ UNCHANGED rateNow
  /\ RateFrame

\* Time passes
RateTick ==
  /\ controller.built
  /\ rateNow < RateEpoch + MaxRateTicks
  /\ rateNow' = rateNow + 1
  /\ UNCHANGED <<controller, lastRateCall, degradedSince, scenario>>
  /\ RateFrame

InitRate ==
  /\ controller = NoController
  /\ rateNow = RateEpoch
  /\ lastRateCall = <<>>
  /\ degradedSince = 0
  /\ scenario = "none"

NextRate ==
  \/ \E baseInterval \in 1..MaxBaseInterval, pauseMs \in 1..MaxPauseMs,
        recoveryMs \in 1..MaxRecoveryMs :
       NewRateLimitController(baseInterval, pauseMs, recoveryMs)
  \/ BeforeCycle
  \/ RegisterRateLimit
  \/ \E hadRateLimit \in BOOLEAN : OnCycleComplete(hadRateLimit)
  \/ RateTick

(***************************************************************************)
(* Claims on the rate-limit controller.                                    *)
(***************************************************************************)
LastRateCallIs(op) == lastRateCall # <<>> /\ lastRateCall[1].op = op

\* C14: registerRateLimit moves a normal controller to degraded with entries
\* suppressed, a degraded one to paused with the deadline at now + pauseMs,
\* keeps a paused one paused and moves its deadline to now + pauseMs; it
\* never moves normal to paused and never leaves the controller normal.
C14_RegisterEscalates ==
  LastRateCallIs("registerRateLimit") =>
    /\ lastRateCall[1].pre.state = "normal"
         => controller.state = "degraded" /\ controller.entriesSuppressed
    /\ lastRateCall[1].pre.state \in {"degraded", "paused"}
         => /\ controller.state = "paused"
            /\ controller.pausedUntil = <<lastRateCall[1].at + controller.pauseMs>>
    /\ controller.state # "normal"

\* A call on a paused controller has moved the deadline forward
C14_Witness ==
  /\ LastRateCallIs("registerRateLimit")
  /\ lastRateCall[1].pre.state = "paused"
  /\ controller.state = "paused"
  /\ lastRateCall[1].pre.pausedUntil[1] < controller.pausedUntil[1]

\* C15: beforeCycle() on a paused controller returns 'paused' and leaves it
\* paused while the deadline has not elapsed; at or after the deadline it
\* moves the controller to degraded, clears the deadline and returns 'run' or
\* 'skip'.
C15_PausedUntilDeadline ==
  (LastRateCallIs("beforeCycle") /\ lastRateCall[1].pre.state = "paused") =>
    /\ lastRateCall[1].pre.pausedUntil # <<>>
    /\ IF lastRateCall[1].at < lastRateCall[1].pre.pausedUntil[1]
       THEN lastRateCall[1].ret = "paused" /\ controller.state = "paused"
       ELSE /\ controller.state = "degraded"
            /\ controller.pausedUntil = <<>>
            /\ lastRateCall[1].ret \in {"run", "skip"}

\* beforeCycle() was called exactly at the deadline
C15_Witness ==
  /\ LastRateCallIs("beforeCycle")
  /\ lastRateCall[1].pre.state = "paused"
  /\ lastRateCall[1].at = lastRateCall[1].pre.pausedUntil[1]
  /\ controller.state = "degraded"

\* C16: onCycleComplete(false) moves the controller from degraded to normal
\* and re-enables entries exactly when it has been degraded for at least
\* recoveryMs; onCycleComplete(true) changes neither the state nor the
\* suppression of entries.
C16_RecoverAfterWindow ==
  LastRateCallIs("onCycleComplete") =>
    IF lastRateCall[1].arg
    THEN /\ controller.state = lastRateCall[1].pre.state
         /\ controller.entriesSuppressed = lastRateCall[1].pre.entriesSuppressed
    ELSE (/\ lastRateCall[1].pre.state = "degraded"
          /\ controller.state = "normal"
          /\ ~controller.entriesSuppressed)
         <=> (/\ lastRateCall[1].pre.state = "degraded"
              /\ lastRateCall[1].at - degradedSince >= controller.recoveryMs)

C18_BlockedIffNotNormal ==
  controller.built =>
    (shouldBlockEntries(controller) <=> controller.state \in {"degraded", "paused"})

\* The controller is back in degraded after a pause and still blocks entries
C18_Witness ==
  /\ LastRateCallIs("beforeCycle")
  /\ lastRateCall[1].pre.state = "paused"
  /\ controller.state = "degraded"
  /\ shouldBlockEntries(controller)

(***************************************************************************)
(* Event listeners: the registration methods of LighterGateway and         *)
(* AsterGateway, the emit of createEvent and SimpleEvent, and the listener *)
(* loop of BinanceDepthTracker.handlePayload.  One stream is followed at a *)
(* time; the streams do not share state.                                   *)
(***************************************************************************)
NumListeners == 2   \* listeners registered on the stream
MaxUpdates == 2     \* updates of the stream's value

Listeners == 1..NumListeners

LighterEndpoints ==
  {"lighter.onAccount", "lighter.onOrders", "lighter.onDepth", "lighter.onTicker",
   "lighter.onKlines", "lighter.watchKlines"}
AsterEndpoints ==
  {"aster.onAccount", "aster.onOrders", "aster.onDepth", "aster.onTicker",
   "aster.onKlines"}
Endpoints == LighterEndpoints \cup AsterEndpoints \cup {"binanceDepth.onUpdate"}

\* The object behind the method keeps the stream's current value: the Aster
\* gateway keeps no depth and no ticker
holdsValue(e) == e \notin {"aster.onDepth", "aster.onTicker"}

\* The versions the registration method invokes the new listener with, when
\* the latest value is version v (0: none yet)
onRegister(e, v) ==
  CASE e \in {"lighter.onAccount", "lighter.onOrders", "lighter.onDepth",
              "lighter.onTicker", "lighter.onKlines"} -> <<>>
    [] e = "lighter.watchKlines" -> IF v > 0 THEN <<v>> ELSE <<>>
    [] e = "aster.onAccount" -> IF v > 0 THEN <<v>> ELSE <<>>
    [] e = "aster.onOrders" -> <<v>>
    [] e \in {"aster.onDepth", "aster.onTicker"} -> <<>>
    [] e = "aster.onKlines" -> IF v > 0 THEN <<v>> ELSE <<>>
    [] e = "binanceDepth.onUpdate" -> <<>>

\* listeners.add(handler) of a Set
add(hs, l) == IF \E i \in 1..Len(hs) : hs[i] = l THEN hs ELSE Append(hs, l)

\* emit(value) of createEvent and SimpleEvent: every listener is invoked
\* inside try/catch.  The listeners invoked, in order, and whether an
\* exception leaves the loop.
emit(hs, throwers) == [invoked |-> hs, propagated |-> FALSE]

\* The listener loop of BinanceDepthTracker.handlePayload: no try/catch
RECURSIVE handlePayload(_, _)
handlePayload(hs, throwers) ==
  IF hs = <<>> THEN [invoked |-> <<>>, propagated |-> FALSE]
  ELSE IF Head(hs) \in throwers THEN [invoked |-> <<Head(hs)>>, propagated |-> TRUE]
  ELSE LET rest == handlePayload(Tail(hs), throwers)
       IN [invoked |-> <<Head(hs)>> \o rest.invoked, propagated |-> rest.propagated]

\* The emission of endpoint e's stream
deliver(e, hs, throwers) ==
  IF e = "binanceDepth.onUpdate" THEN handlePayload(hs, throwers) ELSE emit(hs, throwers)

\* How many times l occurs in the sequence q
Count(q, l) == Cardinality({i \in 1..Len(q) : q[i] = l})

ListenerFrame == UNCHANGED <<txVars, asterVars, bookVars, accountVars, wsVars, rateVars,
  pollVars, decimalVars, lateVars>>

\* The stream to follow
FollowStream(e) ==
  /\ endpoint = "none"
  /\ endpoint' = e
  /\ UNCHANGED <<latest, handlers, invocations, registeredAt, lastEmit>>
  /\ ListenerFrame

\* A consumer registers listener l through the method
Register(l) ==
  /\ endpoint # "none"
  /\ \A i \in 1..Len(handlers) : handlers[i] # l
  /\ handlers' = add(handlers, l)
  /\ invocations' = [invocations EXCEPT ![l] = onRegister(endpoint, latest)]
  /\ registeredAt' = [registeredAt EXCEPT ![l] = <<latest>>]
  /\ UNCHANGED <<endpoint, latest, lastEmit>>
  /\ ListenerFrame

\* The stream's value is updated and emitted; the listeners in throwers throw
StreamUpdate(throwers) ==
  /\ endpoint # "none"
  /\ latest < MaxUpdates
  /\ latest' = latest + 1
  /\ \E r \in {deliver(endpoint, handlers, throwers)} :
       /\ invocations' = [l \in Listeners |->
                            IF Count(r.invoked, l) > 0
                            THEN invocations[l] \o [i \in 1..Count(r.invoked, l) |-> latest']
                            ELSE invocations[l]]
       /\ lastEmit' = <<[handlers |-> handlers, throwers |-> throwers,
                         invoked |-> r.invoked, propagated |-> r.propagated]>>
  /\ UNCHANGED <<endpoint, handlers, registeredAt>>
  /\ ListenerFrame

InitListeners ==
  /\ endpoint = "none"
  /\ latest = 0
  /\ handlers = <<>>
  /\ invocations = [l \in Listeners |-> <<>>]
  /\ registeredAt = [l \in Listeners |-> <<>>]
  /\ lastEmit = <<>>

NextListeners ==
  \/ \E e \in Endpoints : FollowStream(e)
  \/ \E l \in Listeners : Register(l)
  \/ \E throwers \in SUBSET Listeners : StreamUpdate(throwers)

(***************************************************************************)
(* Claims on the event listeners.                                          *)
(***************************************************************************)
\* The versions from a to b, in order
FromTo(a, b) == [i \in 1..(b - a + 1) |-> a + i - 1]

\* C19: on the account, orders, depth, ticker and kline streams of the two
\* gateways, a listener registered when the gateway already holds a current
\* value has been invoked with that value at registration and then once with
\* every later update.
C19_LateListenerGetsCurrentValue ==
  \A l \in Listeners :
    (/\ endpoint \in LighterEndpoints \cup AsterEndpoints
     /\ holdsValue(endpoint)
     /\ registeredAt[l] # <<>>
     /\ registeredAt[l][1] > 0)
    => invocations[l] = FromTo(registeredAt[l][1], latest)

\* C19 for the methods that replay: lighter.watchKlines, aster.onAccount,
\* aster.onOrders and aster.onKlines invoke a late listener with the current
\* value and then with every later update.
C19_ReplayingMethods ==
  \A l \in Listeners :
    (/\ endpoint \in {"lighter.watchKlines", "aster.onAccount", "aster.onOrders",
                      "aster.onKlines"}
     /\ registeredAt[l] # <<>>
     /\ registeredAt[l][1] > 0)
    => invocations[l] = FromTo(registeredAt[l][1], latest)

\* C20 for createEvent and SimpleEvent: the emit of the two gateways invokes
\* every listener once and lets no exception out.
C20_GatewayEmitIsolated ==
  (lastEmit # <<>> /\ endpoint # "binanceDepth.onUpdate") =>
    /\ ~lastEmit[1].propagated
    /\ \A i \in 1..Len(lastEmit[1].handlers) :
         Count(lastEmit[1].invoked, lastEmit[1].handlers[i]) = 1

\* C20: when an event is emitted and some listeners throw, every other
\* registered listener has received the event exactly once and no exception
\* has left the emitting code.
C20_ListenersIsolated ==
  lastEmit # <<>> =>
    /\ ~lastEmit[1].propagated
    /\ \A i \in 1..Len(lastEmit[1].handlers) :
         lastEmit[1].handlers[i] \notin lastEmit[1].throwers
           => Count(lastEmit[1].invoked, lastEmit[1].handlers[i]) = 1

(***************************************************************************)
(* REST polling and market metadata: loadMetadata and getPrecision, the    *)
(* ticker and kline pollers of the Lighter gateway, and the kline seed and *)
(* refresh timers of the Aster gateway.  The push connection is reduced to *)
(* the outcome of initialize()'s openWebSocket() and to being up or down   *)
(* afterwards; REST requests are answered.                                 *)
(***************************************************************************)
NumKlineListeners == 2    \* listeners that watch klines
NumPrecisionCalls == 2    \* getPrecision() calls

Intervals == {"1m", "5m"}
KlineListeners == 1..NumKlineListeners
PrecisionCalls == 1..NumPrecisionCalls

\* What getOrderBooks() lists for the gateway's symbol
Listings ==
  [market_id : {1}, supported_price_decimals : {2, 3}, supported_size_decimals : {1}]

PollFrame ==
  UNCHANGED <<txVars, asterVars, bookVars, accountVars, wsVars, rateVars,
              listenerVars, decimalVars, lateVars>>

LighterPollVars ==
  <<marketId, priceDecimals, sizeDecimals, metadataRequests, awaitingBooks,
    precisionOf, initializing, link, pollers, klineCache, klinesEvent, watching,
    refreshing, lastPoll>>

AsterKlineVars ==
  <<klineEvents, klineInitialFetches, klineRefreshTimers, klineStores, onKlinesCalls>>

\* loadMetadata's early return: all three fields are known
metadataKnown == marketId # <<>> /\ priceDecimals # <<>> /\ sizeDecimals # <<>>

\* loadMetadata after getOrderBooks() has answered with the listing target
storeListing(target) ==
  /\ marketId' = <<target.market_id>>
  /\ priceDecimals' = IF priceDecimals = <<>> THEN <<target.supported_price_decimals>>
                      ELSE priceDecimals
  /\ sizeDecimals' = IF sizeDecimals = <<>> THEN <<target.supported_size_decimals>>
                     ELSE sizeDecimals

\* What getPrecision() returns (priceTick and qtyStep are functions of the
\* two decimal counts)
precision(m, p, s) == [priceDecimals |-> p[1], sizeDecimals |-> s[1], marketId |-> m]

\* this.initialized of the polling gateway
isInitialized == initializing = "done"

\* ensureInitialized() before the gateway is initialized: initialize() starts
\* unless connectPromise is set, and its first step is loadMetadata()
beginInitialize ==
  IF initializing # "none" THEN UNCHANGED <<initializing, metadataRequests>>
  ELSE IF metadataKnown
       THEN initializing' = "openWebSocket" /\ UNCHANGED metadataRequests
       ELSE /\ initializing' = "loadMetadata"
            /\ metadataRequests' = metadataRequests + 1

\* refreshKlines(interval) up to the first await that has to wait; one
\* refresh per interval is in flight at a time
startRefresh(i) ==
  IF refreshing[i] # "idle" THEN UNCHANGED <<refreshing, initializing, metadataRequests>>
  ELSE IF isInitialized
       THEN /\ refreshing' = [refreshing EXCEPT ![i] = "getCandlesticks"]
            /\ UNCHANGED <<initializing, metadataRequests>>
       ELSE /\ refreshing' = [refreshing EXCEPT ![i] = "ensureInitialized"]
            /\ beginInitialize

C21mut_existingPoller(p, i) == FALSE

\* const existing = this.pollers.klines.get(interval)
existingPoller(p, i) == p.klines[i] > 0

\* startPolling(): one ticker timer, created when there is none
startPolling(p) == IF p.ticker > 0 THEN p ELSE [p EXCEPT !.ticker = @ + 1]

NoPoll == <<>>
TickerPoll == <<[kind |-> "ticker", intervals |-> {}, to |-> {}, outcome |-> "emitted"]>>
KlinePoll(kind, i, to, outcome) ==
  <<[kind |-> kind, intervals |-> i, to |-> to, outcome |-> outcome]>>

\* new LighterGateway(options): explicit market id and decimals, or none
NewLighterGateway(explicit) ==
  /\ gateway = "none"
  /\ gateway' = "lighter"
  /\ marketId' = IF explicit THEN <<1>> ELSE <<>>
  /\ priceDecimals' = IF explicit THEN <<2>> ELSE <<>>
  /\ sizeDecimals' = IF explicit THEN <<1>> ELSE <<>>
  /\ UNCHANGED <<metadataRequests, awaitingBooks, precisionOf, initializing, link,
                 pollers, klineCache, klinesEvent, watching, refreshing, lastPoll>>
  /\ UNCHANGED AsterKlineVars
  /\ PollFrame

\* getPrecision() is called: loadMetadata() returns at once or requests the
\* order books
GetPrecision(c) ==
  /\ gateway = "lighter"
  /\ precisionOf[c] = <<>>
  /\ c \notin awaitingBooks
  /\ IF metadataKnown
     THEN /\ precisionOf' = [precisionOf EXCEPT
                               ![c] = <<precision(marketId, priceDecimals, sizeDecimals)>>]
          /\ UNCHANGED <<metadataRequests, awaitingBooks>>
     ELSE /\ metadataRequests' = metadataRequests + 1
          /\ awaitingBooks' = awaitingBooks \cup {c}
          /\ UNCHANGED precisionOf
  /\ lastPoll' = NoPoll
  /\ UNCHANGED <<gateway, marketId, priceDecimals, sizeDecimals, initializing, link,
                 pollers, klineCache, klinesEvent, watching, refreshing>>
  /\ UNCHANGED AsterKlineVars
  /\ PollFrame

\* getOrderBooks() answers the loadMetadata() of getPrecision() call c
OrderBooksForGetPrecision(c, target) ==
  /\ c \in awaitingBooks
  /\ storeListing(target)
  /\ awaitingBooks' = awaitingBooks \ {c}
  /\ precisionOf' = [precisionOf EXCEPT
                       ![c] = <<precision(marketId', priceDecimals', sizeDecimals')>>]
  /\ lastPoll' = NoPoll
  /\ UNCHANGED <<gateway, metadataRequests, initializing, link, pollers, klineCache,
                 klinesEvent, watching, refreshing>>
  /\ UNCHANGED AsterKlineVars
  /\ PollFrame

\* A caller runs ensureInitialized()
Connect ==
  /\ gateway = "lighter"
  /\ initializing = "none"
  /\ beginInitialize
  /\ lastPoll' = NoPoll
  /\ UNCHANGED <<gateway, marketId, priceDecimals, sizeDecimals, awaitingBooks,
                 precisionOf, link, pollers, klineCache, klinesEvent, watching,
                 refreshing>>
  /\ UNCHANGED AsterKlineVars
  /\ PollFrame

\* getOrderBooks() answers the loadMetadata() of initialize(), which goes on
\* to openWebSocket()
OrderBooksForInitialize(target) ==
  /\ initializing = "loadMetadata"
  /\ storeListing(target)
  /\ initializing' = "openWebSocket"
  /\ lastPoll' = NoPoll
  /\ UNCHANGED <<gateway, metadataRequests, awaitingBooks, precisionOf, link, pollers,
                 klineCache, klinesEvent, watching, refreshing>>
  /\ UNCHANGED AsterKlineVars
  /\ PollFrame

\* openWebSocket() resolves: initialize() calls startPolling(), whose first
\* refreshTicker() emits, and every waiting ensureInitialized() returns
WebSocketOpens ==
  /\ initializing = "openWebSocket"
  /\ initializing' = "done"
  /\ link' = "up"
  /\ pollers' = startPolling(pollers)
  /\ refreshing' = [i \in Intervals |->
                      IF refreshing[i] = "ensureInitialized" THEN "getCandlesticks"
                      ELSE refreshing[i]]
  /\ lastPoll' = TickerPoll
  /\ UNCHANGED <<gateway, marketId, priceDecimals, sizeDecimals, metadataRequests,
                 awaitingBooks, precisionOf, klineCache, klinesEvent, watching>>
  /\ UNCHANGED AsterKlineVars
  /\ PollFrame

\* openWebSocket() rejects: connectPromise = null, and every refreshKlines()
\* that waits in ensureInitialized() ends with the error
WebSocketFails ==
  /\ initializing = "openWebSocket"
  /\ initializing' = "none"
  /\ refreshing' = [i \in Intervals |->
                      IF refreshing[i] = "ensureInitialized" THEN "idle"
                      ELSE refreshing[i]]
  /\ lastPoll' = IF \E i \in Intervals : refreshing[i] = "ensureInitialized"
                 THEN KlinePoll("klines",
                                {i \in Intervals : refreshing[i] = "ensureInitialized"},
                                {}, "blocked")
                 ELSE NoPoll
  /\ UNCHANGED <<gateway, marketId, priceDecimals, sizeDecimals, metadataRequests,
                 awaitingBooks, precisionOf, link, pollers, klineCache, klinesEvent,
                 watching>>
  /\ UNCHANGED AsterKlineVars
  /\ PollFrame

\* The push connection drops after it was established
LinkDrops ==
  /\ link = "up"
  /\ link' = "down"
  /\ lastPoll' = NoPoll
  /\ UNCHANGED <<gateway, marketId, priceDecimals, sizeDecimals, metadataRequests,
                 awaitingBooks, precisionOf, initializing, pollers, klineCache,
                 klinesEvent, watching, refreshing>>
  /\ UNCHANGED AsterKlineVars
  /\ PollFrame

\* The reconnect succeeds
LinkReconnects ==
  /\ link = "down"
  /\ link' = "up"
  /\ lastPoll' = NoPoll
  /\ UNCHANGED <<gateway, marketId, priceDecimals, sizeDecimals, metadataRequests,
                 awaitingBooks, precisionOf, initializing, pollers, klineCache,
                 klinesEvent, watching, refreshing>>
  /\ UNCHANGED AsterKlineVars
  /\ PollFrame

\* watchKlines(interval, handler)
WatchKlines(l, i) ==
  /\ gateway = "lighter"
  /\ i \notin watching[l]
  /\ watching' = [watching EXCEPT ![l] = @ \cup {i}]
  /\ klinesEvent' = klinesEvent \cup {l}
  /\ lastPoll' = IF klineCache[i] THEN KlinePoll("replay", {i}, {l}, "emitted") ELSE NoPoll
  /\ IF existingPoller(pollers, i)
     THEN UNCHANGED <<pollers, refreshing, initializing, metadataRequests>>
     ELSE /\ pollers' = [pollers EXCEPT !.klines[i] = @ + 1]
          /\ startRefresh(i)
  /\ UNCHANGED <<gateway, marketId, priceDecimals, sizeDecimals, awaitingBooks,
                 precisionOf, link, klineCache>>
  /\ UNCHANGED AsterKlineVars
  /\ PollFrame

\* The interval timer of a kline poller fires: poll()
KlineTimerFire(i) ==
  /\ pollers.klines[i] > 0
  /\ refreshing[i] = "idle"
  /\ startRefresh(i)
  /\ lastPoll' = NoPoll
  /\ UNCHANGED <<gateway, marketId, priceDecimals, sizeDecimals, awaitingBooks,
                 precisionOf, link, pollers, klineCache, klinesEvent, watching>>
  /\ UNCHANGED AsterKlineVars
  /\ PollFrame

\* getCandlesticks() answers refreshKlines(interval): the series is cached
\* and emitted on klinesEvent
KlinesResponse(i) ==
  /\ refreshing[i] = "getCandlesticks"
  /\ refreshing' = [refreshing EXCEPT ![i] = "idle"]
  /\ klineCache' = [klineCache EXCEPT ![i] = TRUE]
  /\ lastPoll' = KlinePoll("klines", {i}, klinesEvent, "emitted")
  /\ UNCHANGED <<gateway, marketId, priceDecimals, sizeDecimals, metadataRequests,
                 awaitingBooks, precisionOf, initializing, link, pollers, klinesEvent,
                 watching>>
  /\ UNCHANGED AsterKlineVars
  /\ PollFrame

\* The ticker timer fires: refreshTicker() emits the ticker
TickerTimerFire ==
  /\ pollers.ticker > 0
  /\ lastPoll' = TickerPoll
  /\ UNCHANGED <<gateway, marketId, priceDecimals, sizeDecimals, metadataRequests,
                 awaitingBooks, precisionOf, initializing, link, pollers, klineCache,
                 klinesEvent, watching, refreshing>>
  /\ UNCHANGED AsterKlineVars
  /\ PollFrame

\* ---- Aster gateway: one symbol, keys are the intervals

\* ensureKlineSeed(): one seed task per key
ensureKlineSeed(fetches, k) ==
  IF fetches[k] # "none" THEN fetches ELSE [fetches EXCEPT ![k] = "pending"]

\* startKlineRefresh(): one refresh timer per key
startKlineRefresh(timers, k) ==
  IF timers[k] > 0 THEN timers ELSE [timers EXCEPT ![k] = @ + 1]

NewAsterGateway ==
  /\ gateway = "none"
  /\ gateway' = "aster"
  /\ UNCHANGED LighterPollVars
  /\ UNCHANGED AsterKlineVars
  /\ PollFrame

\* onKlines(symbol, interval, listener)
AsterOnKlines(k) ==
  /\ gateway = "aster"
  /\ onKlinesCalls[k] < NumKlineListeners
  /\ onKlinesCalls' = [onKlinesCalls EXCEPT ![k] = @ + 1]
  /\ klineEvents' = klineEvents \cup {k}
  /\ klineInitialFetches' =
       IF k \notin klineEvents \/ ~klineStores[k]
       THEN ensureKlineSeed(klineInitialFetches, k)
       ELSE klineInitialFetches
  /\ UNCHANGED <<klineRefreshTimers, klineStores>>
  /\ UNCHANGED gateway
  /\ UNCHANGED LighterPollVars
  /\ PollFrame

\* The kline stream pushes a kline for key k into its store
AsterKlinePush(k) ==
  /\ k \in klineEvents
  /\ klineStores' = [klineStores EXCEPT ![k] = TRUE]
  /\ UNCHANGED <<klineEvents, klineInitialFetches, klineRefreshTimers, onKlinesCalls>>
  /\ UNCHANGED gateway
  /\ UNCHANGED LighterPollVars
  /\ PollFrame

\* The seed task of key k ends, with klines or with an error: finally
\* startKlineRefresh()
AsterSeedSettles(k, ok) ==
  /\ klineInitialFetches[k] = "pending"
  /\ klineInitialFetches' = [klineInitialFetches EXCEPT ![k] = "settled"]
  /\ klineStores' = IF ok THEN [klineStores EXCEPT ![k] = TRUE] ELSE klineStores
  /\ klineRefreshTimers' = startKlineRefresh(klineRefreshTimers, k)
  /\ UNCHANGED <<klineEvents, onKlinesCalls>>
  /\ UNCHANGED gateway
  /\ UNCHANGED LighterPollVars
  /\ PollFrame

InitPoll ==
  /\ gateway = "none"
  /\ marketId = <<>>
  /\ priceDecimals = <<>>
  /\ sizeDecimals = <<>>
  /\ metadataRequests = 0
  /\ awaitingBooks = {}
  /\ precisionOf = [c \in PrecisionCalls |-> <<>>]
  /\ initializing = "none"
  /\ link = "none"
  /\ pollers = [ticker |-> 0, klines |-> [i \in Intervals |-> 0]]
  /\ klineCache = [i \in Intervals |-> FALSE]
  /\ klinesEvent = {}
  /\ watching = [l \in KlineListeners |-> {}]
  /\ refreshing = [i \in Intervals |-> "idle"]
  /\ lastPoll = NoPoll
  /\ klineEvents = {}
  /\ klineInitialFetches = [k \in Intervals |-> "none"]
  /\ klineRefreshTimers = [k \in Intervals |-> 0]
  /\ klineStores = [k \in Intervals |-> FALSE]
  /\ onKlinesCalls = [k \in Intervals |-> 0]

NextMetadata ==
  \/ \E explicit \in BOOLEAN : NewLighterGateway(explicit)
  \/ \E c \in PrecisionCalls : GetPrecision(c)
  \/ \E c \in PrecisionCalls : \E target \in Listings : OrderBooksForGetPrecision(c, target)
  \/ Connect
  \/ \E target \in Listings : OrderBooksForInitialize(target)
  \/ WebSocketOpens
  \/ WebSocketFails

NextPolling ==
  \/ \E explicit \in BOOLEAN : NewLighterGateway(explicit)
  \/ Connect
  \/ \E target \in Listings : OrderBooksForInitialize(target)
  \/ WebSocketOpens
  \/ WebSocketFails
  \/ LinkDrops
  \/ LinkReconnects
  \/ \E l \in KlineListeners : \E i \in Intervals : WatchKlines(l, i)
  \/ \E i \in Intervals : KlineTimerFire(i)
  \/ \E i \in Intervals : KlinesResponse(i)
  \/ TickerTimerFire
  \/ NewAsterGateway
  \/ \E k \in Intervals : AsterOnKlines(k)
  \/ \E k \in Intervals : AsterKlinePush(k)
  \/ \E k \in Intervals : \E ok \in BOOLEAN : AsterSeedSettles(k, ok)

(***************************************************************************)
(* Claims on polling and metadata.                                         *)
(***************************************************************************)
\* C21: however often kline watching is requested for an interval and
\* polling is started, at most one kline timer per interval and at most one
\* ticker timer are active, in the Lighter and in the Aster gateway.
C21_AtMostOneTimer ==
  /\ pollers.ticker <= 1
  /\ \A i \in Intervals : pollers.klines[i] <= 1
  /\ \A k \in Intervals : klineRefreshTimers[k] <= 1

\* Two listeners watch the same interval of an initialized Lighter gateway:
\* one kline timer and one ticker timer run.
C21_Witness ==
  /\ \E i \in Intervals :
       /\ \A l \in KlineListeners : i \in watching[l]
       /\ pollers.klines[i] = 1
  /\ pollers.ticker = 1

\* onKlines was called twice for a key of the Aster gateway whose seed task
\* has ended: one refresh timer runs.
C21_AsterWitness ==
  \E k \in Intervals :
    /\ onKlinesCalls[k] = NumKlineListeners
    /\ klineInitialFetches[k] = "settled"
    /\ klineRefreshTimers[k] = 1

\* C22: the market metadata is requested from the exchange at most once per
\* gateway, also when getPrecision/initialize calls overlap, and every
\* getPrecision call returns the same values.
C22_MetadataRequestedOnce ==
  /\ metadataRequests <= 1
  /\ \A c, d \in PrecisionCalls :
       (precisionOf[c] # <<>> /\ precisionOf[d] # <<>>) => precisionOf[c] = precisionOf[d]

\* C22 without the overlap: once the metadata is known no request is issued.
C22_NoRequestOnceKnown ==
  [][metadataKnown => metadataRequests' = metadataRequests]_vars

\* C22, the returned values: all getPrecision calls return the same values.
C22_SamePrecision ==
  \A c, d \in PrecisionCalls :
    (precisionOf[c] # <<>> /\ precisionOf[d] # <<>>) => precisionOf[c] = precisionOf[d]

\* C23: no kline poll waits for, or ends without emitting because of, the
\* push connection, whether it was never established or has dropped.
C23_PollsNotBlockedByConnection ==
  /\ \A i \in Intervals :
       ~(refreshing[i] = "ensureInitialized" /\ initializing = "openWebSocket")
  /\ lastPoll # <<>> => lastPoll[1].outcome # "blocked"

\* C23 once the gateway is initialized: the ticker timer runs and no poll
\* waits or is blocked, whether the connection is up or has dropped.
C23_PollsRunOnceInitialized ==
  isInitialized =>
    /\ pollers.ticker = 1
    /\ \A i \in Intervals : refreshing[i] # "ensureInitialized"
    /\ lastPoll # <<>> => lastPoll[1].outcome = "emitted"

\* A kline poll has emitted while the connection is down.
C23_DroppedWitness ==
  /\ link = "down"
  /\ lastPoll # <<>>
  /\ lastPoll[1].kind = "klines"
  /\ lastPoll[1].outcome = "emitted"

\* C24: a listener registered with watchKlines(interval, handler) is invoked
\* only with kline series of an interval it was registered for.
C24_OnlyOwnInterval ==
  (lastPoll # <<>> /\ lastPoll[1].kind \in {"klines", "replay"}
   /\ lastPoll[1].outcome = "emitted")
  => \A l \in lastPoll[1].to : lastPoll[1].intervals \subseteq watching[l]

\* C24 for the replay at registration: the cached series handed to the new
\* listener is of the interval it asked for.
C24_ReplayOwnInterval ==
  (lastPoll # <<>> /\ lastPoll[1].kind = "replay")
  => \A l \in lastPoll[1].to : lastPoll[1].intervals \subseteq watching[l]

(***************************************************************************)
(* Scaled-decimal helpers: normalizeDecimalInput, decimalToScaled,         *)
(* scaleQuantityWithMinimum, scaledToDecimalString.  A string is a         *)
(* sequence of one-character strings; a bigint is an integer.              *)
(***************************************************************************)
MaxStringLen == 4        \* characters of a string input
MaxDecimals == 3         \* largest decimal count
MaxFractionDigits == 7   \* fractional digits of a number input

DigitChars == <<"0", "1", "2", "3", "4", "5", "6", "7", "8", "9">>
IsDigit(c) == \E i \in 1..10 : DigitChars[i] = c
DigitValue(c) == (CHOOSE i \in 1..10 : DigitChars[i] = c) - 1

InputChars == {"0", "1", "5", ".", "-"}
Mantissas == {0, 1, 5, 15}

StringInputs == {[type |-> "string", s |-> s] :
                   s \in UNION {[1..n -> InputChars] : n \in 0..MaxStringLen}}
\* A finite number: (-1)^neg * digits / 10^fraction, in shortest form
NumberInputs ==
  {x \in [type : {"number"}, neg : BOOLEAN, digits : Mantissas,
          fraction : 0..MaxFractionDigits] : x.digits # 0 \/ x.fraction = 0}
BigintInputs == {[type |-> "bigint", n |-> n] : n \in -2..2}
DecimalInputs == StringInputs \cup NumberInputs \cup BigintInputs

\* BigInt.prototype.toString of a non-negative value
RECURSIVE toString(_)
toString(n) ==
  IF n < 10 THEN <<DigitChars[n + 1]>>
  ELSE toString(n \div 10) \o <<DigitChars[(n % 10) + 1]>>

\* BigInt(digits)
RECURSIVE BigInt(_)
BigInt(digits) ==
  IF digits = <<>> THEN 0
  ELSE BigInt(SubSeq(digits, 1, Len(digits) - 1)) * 10 + DigitValue(digits[Len(digits)])

Zeros(n) == [i \in 1..n |-> "0"]

\* Number.prototype.toString: decimal notation from 1e-6 on, exponent
\* notation below
numberDigits(neg, ds, fraction) ==
  LET n == Len(ds) - fraction
      body == IF n <= -6
              THEN <<ds[1]>> \o (IF Len(ds) > 1 THEN <<".">> \o Tail(ds) ELSE <<>>)
                   \o <<"e", "-">> \o toString(1 - n)
              ELSE IF fraction = 0 THEN ds
              ELSE IF n > 0
                   THEN SubSeq(ds, 1, n) \o <<".">> \o SubSeq(ds, n + 1, Len(ds))
                   ELSE <<"0", ".">> \o Zeros(0 - n) \o ds
  IN IF neg THEN <<"-">> \o body ELSE body

numberToString(x) ==
  IF x.digits = 0 THEN <<"0">>
  ELSE numberDigits(x.neg, toString(x.digits), x.fraction)

matchesDecimal(s) ==
  /\ \A i \in 1..Len(s) : IsDigit(s[i]) \/ s[i] = "."
  /\ Cardinality({i \in 1..Len(s) : s[i] = "."}) <= 1

\* replace(/^0+(?=\d)/, "")
RECURSIVE stripLeadingZeros(_)
stripLeadingZeros(s) ==
  IF Len(s) >= 2 /\ s[1] = "0" THEN stripLeadingZeros(Tail(s)) ELSE s

\* replace(/0+$/, "")
RECURSIVE stripTrailingZeros(_)
stripTrailingZeros(s) ==
  IF s # <<>> /\ s[Len(s)] = "0" THEN stripTrailingZeros(SubSeq(s, 1, Len(s) - 1)) ELSE s

Thrown == [ok |-> FALSE]
Returned(v) == [ok |-> TRUE, v |-> v]

zeroDecimal == [ok |-> TRUE, sign |-> 1, digits |-> <<"0">>, fractionLength |-> 0]

\* The tail of normalizeDecimalInput, from the stripped parts on.
normalizedParts(sign, integerPart, fractionPart) ==
  IF integerPart = <<>> /\ fractionPart = <<>> THEN zeroDecimal
  ELSE [ok |-> TRUE, sign |-> sign,
        digits |-> (IF integerPart = <<>> THEN <<"0">> ELSE integerPart) \o fractionPart,
        fractionLength |-> Len(fractionPart)]

\* unsigned.split("."): the position of the dot, or one past the end.
splitAt(unsigned) ==
  LET dot == {i \in 1..Len(unsigned) : unsigned[i] = "."}
  IN IF dot = {} THEN Len(unsigned) + 1 ELSE CHOOSE i \in dot : TRUE

normalizeSplit(sign, unsigned, at) ==
  normalizedParts(sign,
                  stripLeadingZeros(SubSeq(unsigned, 1, at - 1)),
                  stripTrailingZeros(SubSeq(unsigned, at + 1, Len(unsigned))))

normalizeUnsigned(sign, unsigned) ==
  IF ~matchesDecimal(unsigned) THEN Thrown
  ELSE IF unsigned = <<>> \/ unsigned = <<".">> THEN zeroDecimal
  ELSE normalizeSplit(sign, unsigned, splitAt(unsigned))

normalizeTrimmed(trimmed) ==
  IF trimmed = <<>> THEN Thrown
  ELSE IF trimmed[1] = "-" THEN normalizeUnsigned(-1, Tail(trimmed))
  ELSE normalizeUnsigned(1, trimmed)

normalizeDecimalInput(value) ==
  IF value.type = "bigint"
  THEN [ok |-> TRUE, sign |-> IF value.n < 0 THEN -1 ELSE 1,
        digits |-> toString(Abs(value.n)), fractionLength |-> 0]
  ELSE normalizeTrimmed(IF value.type = "number" THEN numberToString(value)
                        ELSE value.s)

\* decimalToScaled once its input is normalized.
scaleNormalized(n, decimals) ==
  IF ~n.ok THEN Thrown
  ELSE IF n.fractionLength > decimals
       THEN LET trimLength == n.fractionLength - decimals
                sliced == SubSeq(n.digits, 1, Len(n.digits) - trimLength)
                truncated == IF sliced = <<>> THEN <<"0">> ELSE sliced
            IN Returned(n.sign * BigInt(truncated))
       ELSE Returned(n.sign * BigInt(n.digits \o Zeros(decimals - n.fractionLength)))

decimalToScaled(value, decimals) ==
  scaleNormalized(normalizeDecimalInput(value), decimals)

Finite(sign) == [finite |-> TRUE, sign |-> sign]
toNumber(value) ==
  IF value.type = "bigint"
  THEN Finite(IF value.n < 0 THEN -1 ELSE IF value.n = 0 THEN 0 ELSE 1)
  ELSE IF value.type = "number"
  THEN Finite(IF value.digits = 0 THEN 0 ELSE IF value.neg THEN -1 ELSE 1)
  ELSE LET neg == value.s # <<>> /\ value.s[1] = "-"
           unsigned == IF neg THEN Tail(value.s) ELSE value.s
       IN IF value.s = <<>> THEN Finite(0)
          ELSE IF ~matchesDecimal(unsigned) \/ ~\E i \in 1..Len(unsigned) : IsDigit(unsigned[i])
          THEN [finite |-> FALSE, sign |-> 0]
          ELSE IF \A i \in 1..Len(unsigned) : unsigned[i] \in {"0", "."} THEN Finite(0)
          ELSE Finite(IF neg THEN -1 ELSE 1)

\* scaleQuantityWithMinimum once scaled and numeric are computed.
withMinimum(scaled, numeric) ==
  IF ~scaled.ok THEN Thrown
  ELSE IF scaled.v # 0 THEN scaled
  ELSE IF ~numeric.finite \/ numeric.sign = 0 THEN scaled
  ELSE Returned(IF numeric.sign < 0 THEN -1 ELSE 1)

scaleQuantityWithMinimum(value, decimals) ==
  withMinimum(decimalToScaled(value, decimals), toNumber(value))

stripZeroFraction(integerPart, fractionPart) ==
  IF fractionPart # <<>> /\ \A i \in 1..Len(fractionPart) : fractionPart[i] = "0"
  THEN integerPart
  ELSE IF fractionPart = <<>> THEN integerPart
  ELSE integerPart \o <<".">> \o fractionPart

\* digits.padStart(decimals + 1, "0") when digits is not longer than decimals.
padStart(digits, decimals) ==
  IF Len(digits) <= decimals
  THEN Zeros(decimals + 1 - Len(digits)) \o digits ELSE digits

\* The split of the padded digits into integer and fraction part.
splitPadded(padded, splitIndex) ==
  stripZeroFraction(IF splitIndex = 0 THEN <<"0">> ELSE SubSeq(padded, 1, splitIndex),
                    SubSeq(padded, splitIndex + 1, Len(padded)))

formatPadded(padded, decimals) == splitPadded(padded, Len(padded) - decimals)

formatDigits(negative, digits, decimals) ==
  IF decimals = 0
  THEN (IF negative THEN <<"-">> \o digits ELSE digits)
  ELSE IF negative THEN <<"-">> \o formatPadded(padStart(digits, decimals), decimals)
  ELSE formatPadded(padStart(digits, decimals), decimals)

scaledToDecimalString(value, decimals) ==
  formatDigits(value < 0, toString(IF value < 0 THEN 0 - value ELSE value), decimals)

DecimalFrame ==
  UNCHANGED <<txVars, asterVars, bookVars, accountVars, wsVars, rateVars,
              listenerVars, pollVars, lateVars>>

\* mapCreateOrderParams scales a quantity or price and formats the result.
\* The helpers keep no state: one call per behaviour covers them.
ScaleAndFormat(x, d) ==
  /\ decimalCall = <<>>
  /\ decimalCall' =
       <<[value |-> x, decimals |-> d,
          scaled |-> decimalToScaled(x, d),
          minimum |-> scaleQuantityWithMinimum(x, d),
          text |-> IF decimalToScaled(x, d).ok
                   THEN <<scaledToDecimalString(decimalToScaled(x, d).v, d)>>
                   ELSE <<>>]>>
  /\ DecimalFrame

InitDecimal == decimalCall = <<>>

NextDecimal ==
  \E x \in DecimalInputs : \E d \in 0..MaxDecimals : ScaleAndFormat(x, d)

(***************************************************************************)
(* Claims on the decimal helpers.                                          *)
(***************************************************************************)
\* The sign of the value an input denotes: a number, a bigint, or a string
\* of digits with at most one decimal point and an optional leading "-"
IsDecimalString(s) ==
  LET unsigned == IF s # <<>> /\ s[1] = "-" THEN Tail(s) ELSE s IN
  /\ matchesDecimal(unsigned)
  /\ \E i \in 1..Len(unsigned) : IsDigit(unsigned[i])

WellFormed(x) == x.type = "string" => IsDecimalString(x.s)

SignOf(x) ==
  IF x.type = "bigint" THEN (IF x.n < 0 THEN -1 ELSE IF x.n = 0 THEN 0 ELSE 1)
  ELSE IF x.type = "number" THEN (IF x.digits = 0 THEN 0 ELSE IF x.neg THEN -1 ELSE 1)
  ELSE IF \A i \in 1..Len(x.s) : ~IsDigit(x.s[i]) \/ x.s[i] = "0" THEN 0
  ELSE IF x.s[1] = "-" THEN -1 ELSE 1

MinimumAsStated(c) ==
  /\ c.minimum.ok
  /\ c.scaled.ok
  /\ c.scaled.v # 0 => c.minimum.v = c.scaled.v
  /\ (c.scaled.v = 0 /\ SignOf(c.value) # 0) => c.minimum.v = SignOf(c.value)
  /\ SignOf(c.value) = 0 => c.minimum.v = 0
  /\ SignOf(c.value) # 0 =>
       (c.minimum.v # 0 /\ (c.minimum.v < 0 <=> SignOf(c.value) < 0))

\* C25: for every input x and decimal count d, scaleQuantityWithMinimum(x, d)
\* is decimalToScaled(x, d) when that is nonzero, +1 or -1 with the sign of x
\* when it is zero and x is not, and 0 for x = 0.
C25_MinimumKeepsSign ==
  (decimalCall # <<>> /\ WellFormed(decimalCall[1].value))
  => MinimumAsStated(decimalCall[1])

\* C25 for decimal strings, bigints and numbers that print in decimal notation
C25_MinimumKeepsSignInDecimalNotation ==
  (/\ decimalCall # <<>>
   /\ WellFormed(decimalCall[1].value)
   /\ decimalCall[1].value.type = "number" =>
        matchesDecimal(numberToString([decimalCall[1].value EXCEPT !.neg = FALSE])))
  => MinimumAsStated(decimalCall[1])

\* A quantity that truncates to zero was raised to the minimum step
C25_Witness ==
  /\ decimalCall # <<>>
  /\ WellFormed(decimalCall[1].value)
  /\ decimalCall[1].scaled.ok
  /\ decimalCall[1].scaled.v = 0
  /\ decimalCall[1].minimum.v = -1

\* 10^n
RECURSIVE Pow10(_)
Pow10(n) == IF n = 0 THEN 1 ELSE 10 * Pow10(n - 1)

\* The digits of a decimal string without its sign and point, and the number
\* of digits after the point
DigitsOf(s) == SelectSeq(s, IsDigit)
FractionDigits(s) ==
  IF \E i \in 1..Len(s) : s[i] = "."
  THEN Len(s) - (CHOOSE i \in 1..Len(s) : s[i] = ".")
  ELSE 0

\* s truncated toward zero to d fractional digits, as an integer number of
\* 10^-d units
Truncated(s, d) ==
  LET magnitude == (BigInt(DigitsOf(s)) * Pow10(d)) \div Pow10(FractionDigits(s))
  IN IF s[1] = "-" THEN 0 - magnitude ELSE magnitude

\* The canonical form of t * 10^-d: no leading zeros, no trailing zero
\* fractional digits, no trailing decimal point
Canonical(t, d) ==
  LET abs == IF t < 0 THEN 0 - t ELSE t
      whole == toString(abs \div Pow10(d))
      part == toString(abs % Pow10(d))
      fraction == stripTrailingZeros(Zeros(d - Len(part)) \o part)
      body == IF abs % Pow10(d) = 0 THEN whole ELSE whole \o <<".">> \o fraction
  IN IF t < 0 THEN <<"-">> \o body ELSE body

\* C26: for every valid decimal string s and decimal count d,
\* scaledToDecimalString(decimalToScaled(s, d), d) is the canonical form of s
\* truncated toward zero to d fractional digits.
C26_RoundTripCanonical ==
  (/\ decimalCall # <<>>
   /\ decimalCall[1].value.type = "string"
   /\ IsDecimalString(decimalCall[1].value.s))
  => /\ decimalCall[1].text # <<>>
     /\ decimalCall[1].text[1] =
          Canonical(Truncated(decimalCall[1].value.s, decimalCall[1].decimals),
                    decimalCall[1].decimals)

\* C26, the value: the round trip denotes s truncated toward zero to d
\* fractional digits, whatever its trailing zeros.
C26_RoundTripValue ==
  (/\ decimalCall # <<>>
   /\ decimalCall[1].value.type = "string"
   /\ IsDecimalString(decimalCall[1].value.s))
  => /\ decimalCall[1].scaled.ok
     /\ decimalCall[1].scaled.v =
          Truncated(decimalCall[1].value.s, decimalCall[1].decimals)
     /\ IsDecimalString(decimalCall[1].text[1])
     /\ Truncated(decimalCall[1].text[1], decimalCall[1].decimals) = decimalCall[1].scaled.v

(***************************************************************************)
(* AsterGateway account snapshot: updateAccountSnapshot, refreshSnapshots, *)
(* refreshPositions (src/src/exchanges/aster/client.ts).                   *)
(***************************************************************************)
MaxAsterPositions == 2   \* positions one REST response or one event carries

AsterSymbols == {"BTCUSDT", "ETHUSDT"}
AsterAmounts == {"0", "1", "-1"}

\* Number(positionAmt)
AmountValue(a) == IF a = "0" THEN 0 ELSE IF a = "1" THEN 1 ELSE -1

\* AsterAccountPosition, as toPositionFromRisk and the account response give it
AsterPositions ==
  [symbol : AsterSymbols, positionSide : {"BOTH"}, positionAmt : AsterAmounts]
AsterPositionLists == UNION {[1..n -> AsterPositions] : n \in 0..MaxAsterPositions}

\* The P entries of an ACCOUNT_UPDATE payload
AccountUpdatePositions ==
  [s : AsterSymbols, ps : {"BOTH"}, pa : Opt(AsterAmounts)]
AccountUpdateEvents ==
  [P : Opt(UNION {[1..n -> AccountUpdatePositions] : n \in 0..MaxAsterPositions})]

\* next.positions.find(item => item.symbol === symbol && item.positionSide === ps)
findPosition(list, symbol, side) ==
  {i \in 1..Len(list) : list[i].symbol = symbol /\ list[i].positionSide = side}

\* One turn of the loop over the positions of the payload
applyPosition(list, position) ==
  LET found == findPosition(list, position.s, position.ps) IN
  IF found = {}
  THEN Append(list, [symbol |-> position.s, positionSide |-> position.ps,
                     positionAmt |-> IF position.pa # <<>> THEN position.pa[1] ELSE "0"])
  ELSE [list EXCEPT ![CHOOSE i \in found : \A j \in found : i <= j].positionAmt =
          IF position.pa # <<>> THEN position.pa[1] ELSE @]

RECURSIVE applyPositions(_, _)
applyPositions(list, incoming) ==
  IF incoming = <<>> THEN list
  ELSE applyPositions(applyPosition(list, Head(incoming)), Tail(incoming))

updateAccountSnapshot(snapshot, event) ==
  IF snapshot = <<>> THEN <<>>
  ELSE <<[positions |-> applyPositions(snapshot[1].positions,
                                       IF event.P # <<>> THEN event.P[1] ELSE <<>>)]>>

AsterAccountFrame ==
  UNCHANGED <<txVars, asterVars, bookVars, accountVars, wsVars, rateVars,
              listenerVars, pollVars, decimalVars, streamVars, asterInitVars,
              raceVars, depthVars>>

AccountSync(op, emitted) == <<[op |-> op, emitted |-> emitted]>>

\* The user stream delivers an ACCOUNT_UPDATE event
AsterOnAccount(event) ==
  /\ accountSnapshot' = IF updateAccountSnapshot(accountSnapshot, event) # <<>>
                        THEN updateAccountSnapshot(accountSnapshot, event)
                        ELSE accountSnapshot
  /\ lastAccountSync' =
       AccountSync("onAccount", updateAccountSnapshot(accountSnapshot, event) # <<>>)
  /\ UNCHANGED positionSyncInFlight
  /\ AsterAccountFrame

\* refreshSnapshots, the account half: getAccount() returns an account whose
\* positions the non-empty result of getPositions() replaces (it is <<>>
\* when getPositions() throws)
AsterRefreshAccount(account, latestPositions) ==
  /\ accountSnapshot' =
       <<[positions |-> IF latestPositions # <<>> /\ latestPositions[1] # <<>>
                        THEN latestPositions[1]
                        ELSE IF account # <<>> THEN account[1] ELSE <<>>]>>
  /\ lastAccountSync' = AccountSync("refreshSnapshots", TRUE)
  /\ UNCHANGED positionSyncInFlight
  /\ AsterAccountFrame

\* refreshSnapshots when getAccount() throws: the error is logged
AsterRefreshAccountFails ==
  /\ lastAccountSync' = AccountSync("refreshSnapshots", FALSE)
  /\ UNCHANGED <<accountSnapshot, positionSyncInFlight>>
  /\ AsterAccountFrame

\* refreshPositions() up to its await; a call while one is in flight returns
AsterRefreshPositions ==
  /\ ~positionSyncInFlight
  /\ positionSyncInFlight' = TRUE
  /\ lastAccountSync' = AccountSync("refreshPositions", FALSE)
  /\ UNCHANGED accountSnapshot
  /\ AsterAccountFrame

\* getPositions() settles (outcome is <<>> when it throws): the positions of
\* the snapshot are replaced, or a snapshot is made of them
AsterPositionsSettle(outcome) ==
  /\ positionSyncInFlight
  /\ positionSyncInFlight' = FALSE
  /\ accountSnapshot' = IF outcome # <<>> THEN <<[positions |-> outcome[1]]>>
                        ELSE accountSnapshot
  /\ lastAccountSync' = AccountSync("positionsSettle", outcome # <<>>)
  /\ AsterAccountFrame

InitAsterAccount ==
  /\ accountSnapshot = <<>>
  /\ positionSyncInFlight = FALSE
  /\ lastAccountSync = <<>>

NextAsterAccount ==
  \/ \E event \in AccountUpdateEvents : AsterOnAccount(event)
  \/ \E account, latestPositions \in Opt(AsterPositionLists) : AsterRefreshAccount(account, latestPositions)
  \/ AsterRefreshAccountFails
  \/ AsterRefreshPositions
  \/ \E outcome \in Opt(AsterPositionLists) : AsterPositionsSettle(outcome)

(***************************************************************************)
(* Claims on the AsterGateway account snapshot.                            *)
(***************************************************************************)
\* C33: after any sequence of ACCOUNT_UPDATE events and REST position syncs
\* the snapshot's position set holds no position whose signed size is zero;
\* an update that sets a position's amount to zero removes the position.
C33_NoZeroPosition ==
  accountSnapshot # <<>> =>
    \A i \in 1..Len(accountSnapshot[1].positions) :
      AmountValue(accountSnapshot[1].positions[i].positionAmt) # 0

\* The same for the events alone: an event applied to a snapshot without a
\* zero-size position leaves no zero-size position.
C33_UpdateRemovesZero ==
  C33_NoZeroPosition =>
    \A event \in AccountUpdateEvents :
      LET after == updateAccountSnapshot(accountSnapshot, event) IN
      after # <<>> =>
        \A i \in 1..Len(after[1].positions) :
          AmountValue(after[1].positions[i].positionAmt) # 0

\* What the events do: the amount an event states last for a position is
\* the amount the snapshot holds for it afterwards.
C33_UpdateSetsAmount ==
  \A event \in AccountUpdateEvents :
    LET after == updateAccountSnapshot(accountSnapshot, event)
        P == IF event.P # <<>> THEN event.P[1] ELSE <<>>
    IN after # <<>> =>
         \A k \in 1..Len(P) :
           (/\ P[k].pa # <<>>
            /\ \A later \in (k + 1)..Len(P) : P[later].s # P[k].s)
           => \E i \in 1..Len(after[1].positions) :
                /\ after[1].positions[i].symbol = P[k].s
                /\ after[1].positions[i].positionAmt = P[k].pa[1]

(***************************************************************************)
(* AsterUserStream (start, stop, ensureListenKey, openSocket,              *)
(* handleListenKeyExpired, scheduleReconnect) and                          *)
(* AsterGateway.ensureInitialized.                                         *)
(***************************************************************************)
NumStreamSockets == 2   \* sockets of the stream whose events are still awaited
MaxKeyRequests == 2     \* getListenKey() requests awaited at the same time

StreamSocketIds == 1..NumStreamSockets
KeyRequestKinds == {"start", "expired"}

AsterStreamFrame ==
  UNCHANGED <<txVars, asterVars, bookVars, accountVars, wsVars, rateVars,
              listenerVars, pollVars, decimalVars, asterAccountVars, raceVars,
              depthVars>>

\* openSocket() goes past its two early returns
needsSocket(key, w, socks) ==
  key /\ ~(w # <<>> /\ socks[w[1]] \in {"OPEN", "CONNECTING"})

\* A slot whose socket is closed: none of its events is awaited any more
FreeSlots(socks) == {s \in StreamSocketIds : socks[s] = "CLOSED"}

\* openSocket(): this.ws and the sockets afterwards
openSocket(key, w, socks) ==
  IF needsSocket(key, w, socks)
  THEN [ws |-> <<CHOOSE s \in FreeSlots(socks) : \A t \in FreeSlots(socks) : s <= t>>,
        sockets |-> [socks EXCEPT
                       ![CHOOSE s \in FreeSlots(socks) : \A t \in FreeSlots(socks) : s <= t] =
                         "CONNECTING"]]
  ELSE [ws |-> w, sockets |-> socks]

\* ws.close() on the socket w, if any
closeSocket(w, socks) ==
  IF w # <<>> /\ socks[w[1]] \in {"OPEN", "CONNECTING"}
  THEN [socks EXCEPT ![w[1]] = "CLOSING"] ELSE socks

\* scheduleReconnect(): the timer is pending afterwards
streamScheduleReconnect == IF ~isRunning THEN reconnectTimeout ELSE TRUE

\* start() returns without awaiting a listen key
startReturnsAtOnce == isRunning \/ listenKey

\* start() up to its await, or to its end when it does not await
start ==
  /\ stopped' = FALSE
  /\ IF isRunning
     THEN UNCHANGED <<isRunning, listenKey, streamWs, streamSockets, keepAliveTimer,
                      reconnectTimeout, listenKeyRequests>>
     ELSE /\ isRunning' = TRUE
          /\ IF listenKey
             THEN /\ needsSocket(listenKey, streamWs, streamSockets)
                       => FreeSlots(streamSockets) # {}
                  /\ streamWs' = openSocket(listenKey, streamWs, streamSockets).ws
                  /\ streamSockets' = openSocket(listenKey, streamWs, streamSockets).sockets
                  /\ keepAliveTimer' = TRUE
                  /\ UNCHANGED listenKeyRequests
             ELSE /\ listenKeyRequests.start < MaxKeyRequests
                  /\ listenKeyRequests' = [listenKeyRequests EXCEPT !.start = @ + 1]
                  /\ UNCHANGED <<streamWs, streamSockets, keepAliveTimer>>
          /\ UNCHANGED <<listenKey, reconnectTimeout>>

\* The run of ensureInitialized ends: startPositionSync() and the promise
\* resolves, or the catch clears this.initializing and rethrows
initResolves ==
  /\ positionSyncTimer' = TRUE
  /\ asterInitializing' = "resolved"
  /\ initActive' = initActive - 1
  /\ lastInit' = <<[lastInit[1] EXCEPT !.outcome = "resolved"]>>
  /\ UNCHANGED <<asterInitialized, initRuns>>

initRejects ==
  /\ asterInitializing' = "none"
  /\ initActive' = initActive - 1
  /\ lastInit' = <<[outcome |-> "rejected", failed |-> lastInit[1].failed \cup {"start"}]>>
  /\ UNCHANGED <<asterInitialized, positionSyncTimer, initRuns>>

\* A caller calls userStream.start()
StreamStart ==
  /\ ~isRunning
  /\ start
  /\ UNCHANGED asterInitVars
  /\ AsterStreamFrame

\* A caller calls userStream.stop()
StreamStop ==
  /\ isRunning' = FALSE
  /\ keepAliveTimer' = FALSE
  /\ streamSockets' = closeSocket(streamWs, streamSockets)
  /\ streamWs' = <<>>
  /\ listenKey' = FALSE
  /\ stopped' = TRUE
  /\ UNCHANGED <<reconnectTimeout, listenKeyRequests>>
  /\ UNCHANGED asterInitVars
  /\ AsterStreamFrame

\* An awaited getListenKey() settles: ensureListenKey stores the key and its
\* caller (start or handleListenKeyExpired) goes on, or the error is thrown
\* to the caller
ListenKeyResponse(kind, ok) ==
  /\ listenKeyRequests[kind] > 0
  /\ listenKeyRequests' = [listenKeyRequests EXCEPT ![kind] = @ - 1]
  /\ IF ok
     THEN /\ needsSocket(TRUE, streamWs, streamSockets) => FreeSlots(streamSockets) # {}
          /\ listenKey' = TRUE
          /\ streamWs' = openSocket(TRUE, streamWs, streamSockets).ws
          /\ streamSockets' = openSocket(TRUE, streamWs, streamSockets).sockets
          /\ keepAliveTimer' = (keepAliveTimer \/ kind = "start")
     ELSE UNCHANGED <<listenKey, streamWs, streamSockets, keepAliveTimer>>
  /\ IF kind = "start" /\ asterInitializing = "start"
     THEN IF ok THEN initResolves ELSE initRejects
     ELSE UNCHANGED asterInitVars
  /\ UNCHANGED <<isRunning, reconnectTimeout, stopped>>
  /\ AsterStreamFrame

\* A listenKeyExpired message on the open socket s: handleListenKeyExpired
\* clears the key and awaits a new one
ListenKeyExpired(s) ==
  /\ streamSockets[s] = "OPEN"
  /\ listenKeyRequests.expired < MaxKeyRequests
  /\ listenKey' = FALSE
  /\ listenKeyRequests' = [listenKeyRequests EXCEPT !.expired = @ + 1]
  /\ UNCHANGED <<isRunning, streamWs, streamSockets, keepAliveTimer, reconnectTimeout,
                 stopped>>
  /\ UNCHANGED asterInitVars
  /\ AsterStreamFrame

\* The "open" event of socket s
StreamSocketOpen(s) ==
  /\ streamSockets[s] = "CONNECTING"
  /\ streamSockets' = [streamSockets EXCEPT ![s] = "OPEN"]
  /\ UNCHANGED <<isRunning, listenKey, streamWs, keepAliveTimer, reconnectTimeout,
                 listenKeyRequests, stopped>>
  /\ UNCHANGED asterInitVars
  /\ AsterStreamFrame

\* The "error" event of socket s: onerror closes the current socket; the
\* close event of s follows
StreamSocketError(s) ==
  /\ streamSockets[s] \in {"CONNECTING", "OPEN"}
  /\ streamSockets' = [closeSocket(streamWs, streamSockets) EXCEPT ![s] = "CLOSING"]
  /\ UNCHANGED <<isRunning, listenKey, streamWs, keepAliveTimer, reconnectTimeout,
                 listenKeyRequests, stopped>>
  /\ UNCHANGED asterInitVars
  /\ AsterStreamFrame

\* The "close" event of socket s: onclose schedules a reconnect
StreamSocketClose(s) ==
  /\ streamSockets[s] # "CLOSED"
  /\ streamSockets' = [streamSockets EXCEPT ![s] = "CLOSED"]
  /\ reconnectTimeout' = streamScheduleReconnect
  /\ UNCHANGED <<isRunning, listenKey, streamWs, keepAliveTimer, listenKeyRequests,
                 stopped>>
  /\ UNCHANGED asterInitVars
  /\ AsterStreamFrame

\* The reconnect timer fires
StreamReconnectFire ==
  /\ reconnectTimeout
  /\ needsSocket(listenKey, streamWs, streamSockets) => FreeSlots(streamSockets) # {}
  /\ reconnectTimeout' = FALSE
  /\ streamWs' = openSocket(listenKey, streamWs, streamSockets).ws
  /\ streamSockets' = openSocket(listenKey, streamWs, streamSockets).sockets
  /\ UNCHANGED <<isRunning, listenKey, keepAliveTimer, listenKeyRequests, stopped>>
  /\ UNCHANGED asterInitVars
  /\ AsterStreamFrame

\* A caller calls ensureInitialized(): nothing when the gateway is
\* initialized, the pending promise when there is one, a new run otherwise
AsterEnsureInitialized ==
  /\ ~asterInitialized
  /\ asterInitializing = "none"
  /\ asterInitializing' = "refreshSnapshots"
  /\ initActive' = initActive + 1
  /\ initRuns' = initRuns + 1
  /\ lastInit' = <<[outcome |-> "running", failed |-> {}]>>
  /\ UNCHANGED <<asterInitialized, positionSyncTimer>>
  /\ UNCHANGED streamVars
  /\ AsterStreamFrame

\* refreshSnapshots() returns (it logs its errors, ok tells whether its
\* requests succeeded): this.initialized = true, then userStream.start()
AsterSnapshotsRefreshed(ok) ==
  /\ asterInitializing = "refreshSnapshots"
  /\ start
  /\ asterInitialized' = TRUE
  /\ IF startReturnsAtOnce
     THEN /\ positionSyncTimer' = TRUE
          /\ asterInitializing' = "resolved"
          /\ initActive' = initActive - 1
          /\ lastInit' = <<[outcome |-> "resolved",
                            failed |-> IF ok THEN {} ELSE {"refreshSnapshots"}]>>
     ELSE /\ asterInitializing' = "start"
          /\ lastInit' = <<[outcome |-> "running",
                            failed |-> IF ok THEN {} ELSE {"refreshSnapshots"}]>>
          /\ UNCHANGED <<positionSyncTimer, initActive>>
  /\ UNCHANGED initRuns
  /\ AsterStreamFrame

InitAsterStream ==
  /\ isRunning = FALSE
  /\ listenKey = FALSE
  /\ streamWs = <<>>
  /\ streamSockets = [s \in StreamSocketIds |-> "CLOSED"]
  /\ keepAliveTimer = FALSE
  /\ reconnectTimeout = FALSE
  /\ listenKeyRequests = [start |-> 0, expired |-> 0]
  /\ stopped = FALSE
  /\ asterInitialized = FALSE
  /\ asterInitializing = "none"
  /\ positionSyncTimer = FALSE
  /\ initActive = 0
  /\ initRuns = 0
  /\ lastInit = <<>>

StreamEvents ==
  \/ \E kind \in KeyRequestKinds : \E ok \in BOOLEAN : ListenKeyResponse(kind, ok)
  \/ \E s \in StreamSocketIds : ListenKeyExpired(s)
  \/ \E s \in StreamSocketIds : StreamSocketOpen(s)
  \/ \E s \in StreamSocketIds : StreamSocketError(s)
  \/ \E s \in StreamSocketIds : StreamSocketClose(s)
  \/ StreamReconnectFire

NextAsterInit ==
  \/ AsterEnsureInitialized
  \/ \E ok \in BOOLEAN : AsterSnapshotsRefreshed(ok)
  \/ StreamEvents

NextAsterStream ==
  \/ StreamStart
  \/ StreamStop
  \/ StreamEvents

(***************************************************************************)
(* Claims on ensureInitialized.                                            *)
(***************************************************************************)
\* The step ends a run of AsterGateway's initialization
InitRunEnds(outcome) ==
  /\ lastInit # <<>>
  /\ lastInit[1].outcome = "running"
  /\ lastInit'[1].outcome = outcome

\* C34: overlapping ensureInitialized calls share one initialization run;
\* after it has succeeded it is never run again; if it fails at any step the
\* error reaches the callers, the gateway is not marked initialized and a
\* later ensureInitialized call starts a fresh, complete attempt.
C34_EnsureInitialized ==
  [][/\ initActive' <= 1
     /\ asterInitializing = "resolved" => initRuns' = initRuns
     /\ InitRunEnds("resolved") => lastInit'[1].failed = {}
     /\ InitRunEnds("rejected") =>
          (/\ ~asterInitialized'
           /\ asterInitializing' = "none"
           /\ ~isRunning')]_vars

\* C34, the part AsterGateway keeps: at most one run executes at a time, no
\* run starts after one has succeeded, and a failure of userStream.start()
\* rejects the promise and clears this.initializing.
C34_AsterSharedAndOnce ==
  [][/\ initActive' <= 1
     /\ asterInitializing = "resolved" => initRuns' = initRuns
     /\ InitRunEnds("rejected") => asterInitializing' = "none"]_vars

\* A run of AsterGateway's initialization has been rejected and the gateway
\* is marked initialized.
C34_RejectedWitness ==
  /\ lastInit # <<>>
  /\ lastInit[1].outcome = "rejected"
  /\ asterInitialized
  /\ isRunning

\* The step starts a run of LighterGateway.initialize()
LighterInitStarts == ~connectPromise /\ connectPromise'

\* The step rejects the promise of a run of LighterGateway.initialize()
LighterInitRejects ==
  \E s \in SocketIds :
    /\ sockets[s].via = "init"
    /\ sockets[s].promise = "pending"
    /\ sockets'[s].promise = "rejected"

\* C34 for LighterGateway: a run starts only while the gateway is not
\* initialized and no run is pending; a run that fails clears connectPromise
\* and leaves the gateway not initialized, so that the next call starts a
\* new run.
C34_LighterSharedOnceAndRetried ==
  [][/\ LighterInitStarts => ~initialized
     /\ LighterInitRejects => (~connectPromise' /\ ~initialized')]_vars

\* The sockets of the stream that are open or connecting
StreamLiveSockets == {s \in StreamSocketIds : streamSockets[s] \in {"OPEN", "CONNECTING"}}

\* C39: after stop() and until the next start(), the stream has no open or
\* connecting socket and no keep-alive timer, and it opens no new socket, also
\* when stop() is called while start() or a listen-key renewal still awaits
\* the listen-key response or while a reconnect timer is pending.
C39_StoppedStreamIsQuiet ==
  stopped => (StreamLiveSockets = {} /\ ~keepAliveTimer)

\* stop() itself leaves no open or connecting socket and no keep-alive timer,
\* whatever is pending
C39_QuietRightAfterStop ==
  [][(stopped' /\ isRunning /\ ~isRunning') =>
       (StreamLiveSockets' = {} /\ ~keepAliveTimer' /\ ~listenKey' /\ streamWs' = <<>>)]_vars

\* A stopped stream that holds no listen key gets a socket or a keep-alive
\* timer only when an awaited listen-key response arrives: a reconnect timer
\* that fires without a key opens nothing
C39_OnlyListenKeyWakesStopped ==
  [][(stopped /\ stopped' /\ ~listenKey /\
      (~(StreamLiveSockets' \subseteq StreamLiveSockets) \/ (keepAliveTimer' /\ ~keepAliveTimer)))
       => (listenKey' /\ listenKeyRequests' # listenKeyRequests)]_vars

\* stop() was called while start() awaited its listen key and a reconnect
\* timer was pending
C39_StoppedWhilePending ==
  stopped /\ listenKeyRequests.start > 0 /\ reconnectTimeout /\ StreamLiveSockets = {}

(***************************************************************************)
(* AsterGateway live orders against the exchange: the REST responses of    *)
(* createOrder, cancelOrder, cancelOrders and getOpenOrders and the events *)
(* of the user stream travel on separate connections.                      *)
(***************************************************************************)
MaxRestInFlight == 2    \* REST responses awaited at the same time
MaxStreamQueue == 2     \* order events the stream has not delivered yet

ExchangeStatuses == {"none", "NEW", "FILLED", "CANCELED"}

\* The order id as the exchange reports it in a response or an event
exchangeOrder(id, status) == [orderId |-> <<id>>, status |-> <<status>>]
exchangeEvent(id, status) == [i |-> <<id>>, X |-> <<status>>]

\* The orders among the ids from id on that are open at the exchange, by id
RECURSIVE openAtExchange(_, _)
openAtExchange(ex, id) ==
  IF id > NumOrders THEN <<>>
  ELSE IF ex[id] = "NEW" THEN <<exchangeOrder(id, "NEW")>> \o openAtExchange(ex, id + 1)
       ELSE openAtExchange(ex, id + 1)

\* The response of a batch cancel of every open order: each one as canceled
canceledAtExchange(ex) ==
  [i \in 1..Len(openAtExchange(ex, 1)) |->
     [openAtExchange(ex, 1)[i] EXCEPT !.status = <<"CANCELED">>]]

AsterRaceFrame ==
  UNCHANGED <<txVars, bookVars, accountVars, wsVars, rateVars, listenerVars,
              pollVars, decimalVars, asterAccountVars, streamVars, asterInitVars,
              depthVars>>

\* The exchange answers a REST request: the response is in flight
respond(op, list) ==
  /\ Cardinality(restInFlight) < MaxRestInFlight
  /\ [op |-> op, list |-> list] \notin restInFlight
  /\ restInFlight' = restInFlight \cup {[op |-> op, list |-> list]}

\* The exchange reports the orders of events on the user stream, in order
publish(events) ==
  /\ Len(streamQueue) + Len(events) <= MaxStreamQueue
  /\ streamQueue' = streamQueue \o events

\* rest.createOrder reaches the exchange: the order id rests, the response
\* and the stream's NEW event leave the exchange
ExchangeCreates(id) ==
  /\ exchangeOrders[id] = "none"
  /\ \A j \in OrderIds : exchangeOrders[j] = "none" => id <= j
  /\ exchangeOrders' = [exchangeOrders EXCEPT ![id] = "NEW"]
  /\ respond("createOrder", <<exchangeOrder(id, "NEW")>>)
  /\ publish(<<exchangeEvent(id, "NEW")>>)
  /\ UNCHANGED <<asterVars, finalApplied>>
  /\ AsterRaceFrame

\* The exchange fills the resting order id
ExchangeFills(id) ==
  /\ exchangeOrders[id] = "NEW"
  /\ exchangeOrders' = [exchangeOrders EXCEPT ![id] = "FILLED"]
  /\ publish(<<exchangeEvent(id, "FILLED")>>)
  /\ UNCHANGED <<asterVars, finalApplied, restInFlight>>
  /\ AsterRaceFrame

\* rest.cancelOrder reaches the exchange while the order rests
ExchangeCancels(id) ==
  /\ exchangeOrders[id] = "NEW"
  /\ exchangeOrders' = [exchangeOrders EXCEPT ![id] = "CANCELED"]
  /\ respond("cancelOrder", <<exchangeOrder(id, "CANCELED")>>)
  /\ publish(<<exchangeEvent(id, "CANCELED")>>)
  /\ UNCHANGED <<asterVars, finalApplied>>
  /\ AsterRaceFrame

\* rest.cancelOrders for every resting order reaches the exchange
ExchangeCancelsBatch ==
  /\ openAtExchange(exchangeOrders, 1) # <<>>
  /\ exchangeOrders' = [id \in OrderIds |->
                          IF exchangeOrders[id] = "NEW" THEN "CANCELED" ELSE exchangeOrders[id]]
  /\ respond("cancelOrders", canceledAtExchange(exchangeOrders))
  /\ publish([i \in 1..Len(canceledAtExchange(exchangeOrders)) |->
                exchangeEvent(canceledAtExchange(exchangeOrders)[i].orderId[1], "CANCELED")])
  /\ UNCHANGED <<asterVars, finalApplied>>
  /\ AsterRaceFrame

\* rest.getOpenOrders of refreshSnapshots reaches the exchange
ExchangeListsOpenOrders ==
  /\ respond("refresh", openAtExchange(exchangeOrders, 1))
  /\ UNCHANGED <<asterVars, finalApplied, exchangeOrders, streamQueue>>
  /\ AsterRaceFrame

\* The user stream delivers its next order event: the onOrder handler
StreamDelivers ==
  /\ streamQueue # <<>>
  /\ streamQueue' = Tail(streamQueue)
  /\ AsterWrite("onOrder", Head(streamQueue).i,
                mergeOrderSnapshot(openOrders, toOrderFromEvent(Head(streamQueue))))
  /\ finalApplied' = IF Head(streamQueue).X[1] \in FINAL_ORDER_STATUSES
                     THEN finalApplied \cup {Head(streamQueue).i[1]}
                     ELSE finalApplied
  /\ UNCHANGED <<exchangeOrders, restInFlight>>
  /\ AsterRaceFrame

\* What the method that awaits the response r makes of this.openOrders
afterResponse(map, r) ==
  IF r.op = "refresh"
  THEN mergeOrderSnapshots([id \in OrderIds |-> <<>>], r.list)
  ELSE mergeOrderSnapshots(map, r.list)

\* A REST response arrives: createOrder, cancelOrder, cancelOrders or the
\* open-orders part of refreshSnapshots continues after its await
RestArrives(r) ==
  /\ r \in restInFlight
  /\ restInFlight' = restInFlight \ {r}
  /\ AsterWrite(r.op, <<>>, afterResponse(openOrders, r))
  /\ UNCHANGED <<exchangeOrders, streamQueue, finalApplied>>
  /\ AsterRaceFrame

InitAsterRace ==
  /\ exchangeOrders = [id \in OrderIds |-> "none"]
  /\ restInFlight = {}
  /\ streamQueue = <<>>
  /\ finalApplied = {}

NextAsterRace ==
  \/ \E id \in OrderIds : ExchangeCreates(id)
  \/ \E id \in OrderIds : ExchangeFills(id)
  \/ \E id \in OrderIds : ExchangeCancels(id)
  \/ ExchangeCancelsBatch
  \/ ExchangeListsOpenOrders
  \/ StreamDelivers
  \/ \E r \in restInFlight : RestArrives(r)

\* C38: once a user-stream order update with a final status for order X has
\* been applied, X does not reappear in openOrders through the later arrival
\* of a REST response (createOrder, cancelOrder, cancelOrders, the open-orders
\* fetch of refreshSnapshots) that the exchange produced before that update.
C38_FinalOrderStaysOut ==
  \A id \in finalApplied : openOrders[id] = <<>>

\* The order X of a final update that has been applied is put back
Reappears ==
  \E id \in finalApplied : openOrders[id] = <<>> /\ openOrders'[id] # <<>>

\* The responses of cancelOrder and cancelOrders never put X back: they carry
\* the order as canceled.  What puts X back is the response of createOrder or
\* of getOpenOrders.
C38_CancelResponsesKeepOut ==
  [][Reappears => lastAsterCall'[1].op \in {"createOrder", "refresh"}]_vars

\* Every reappearance is the arrival of a response the exchange produced before
\* the final update: it carries X as NEW while X is final at the exchange
C38_ReappearsOnlyThroughStaleResponse ==
  [][(Reappears /\ lastAsterCall'[1].op \in {"createOrder", "refresh"}) =>
       \E r \in restInFlight :
          /\ r \notin restInFlight'
          /\ \E i \in 1..Len(r.list) :
               /\ r.list[i].status = <<"NEW">>
               /\ r.list[i].orderId[1] \in finalApplied
               /\ exchangeOrders[r.list[i].orderId[1]] \in FINAL_ORDER_STATUSES]_vars

(***************************************************************************)
(* BinanceDepthTracker: start, stop, connect, scheduleReconnect and the    *)
(* open and close handlers (src/src/strategy/common/binance-depth.ts).     *)
(***************************************************************************)
NumDepthSockets == 3    \* sockets of the tracker whose close event is still awaited

DepthSocketIds == 1..NumDepthSockets

\* private reconnectDelayMs = 3000
INITIAL_RECONNECT_DELAY_MS == 3000

\* Math.min(this.reconnectDelayMs * 2, 60_000)
MAX_RECONNECT_DELAY_MS == 60000

DepthFrame ==
  UNCHANGED <<txVars, asterVars, bookVars, accountVars, wsVars, rateVars, listenerVars,
              pollVars, decimalVars, asterAccountVars, streamVars, asterInitVars,
              raceVars>>

\* A slot whose socket has had its close event: nothing of it is awaited
DepthFreeSlots(socks) == {s \in DepthSocketIds : socks[s] = "CLOSED"}

\* connect() goes past its early return: if (this.ws || this.stopped) return
connects(w, isStopped) == w = <<>> /\ ~isStopped

\* connect(): this.ws and the sockets afterwards
connect(w, isStopped, socks) ==
  IF connects(w, isStopped)
  THEN [ws |-> <<CHOOSE s \in DepthFreeSlots(socks) : \A t \in DepthFreeSlots(socks) : s <= t>>,
        sockets |-> [socks EXCEPT
                       ![CHOOSE s \in DepthFreeSlots(socks) :
                            \A t \in DepthFreeSlots(socks) : s <= t] = "CONNECTING"]]
  ELSE [ws |-> w, sockets |-> socks]

\* scheduleReconnect(): whether a timer is pending afterwards
depthScheduleReconnect(timer, isStopped) == timer \/ ~isStopped

\* The timer callback's new delay
nextReconnectDelay(delay) ==
  IF delay * 2 < MAX_RECONNECT_DELAY_MS THEN delay * 2 ELSE MAX_RECONNECT_DELAY_MS

\* A caller calls start()
DepthStart ==
  /\ connects(depthWs, FALSE) => DepthFreeSlots(depthSockets) # {}
  /\ depthStopped' = FALSE
  /\ depthWs' = connect(depthWs, FALSE, depthSockets).ws
  /\ depthSockets' = connect(depthWs, FALSE, depthSockets).sockets
  /\ UNCHANGED <<depthReconnectTimer, depthReconnectDelayMs, depthOrphaned>>
  /\ DepthFrame

\* A caller calls stop(): the timer is cleared, the current socket is closed
\* and forgotten
DepthStop ==
  /\ depthStopped' = TRUE
  /\ depthReconnectTimer' = FALSE
  /\ depthSockets' = IF depthWs # <<>> /\ depthSockets[depthWs[1]] \in {"CONNECTING", "OPEN"}
                     THEN [depthSockets EXCEPT ![depthWs[1]] = "CLOSING"]
                     ELSE depthSockets
  /\ depthWs' = <<>>
  /\ UNCHANGED <<depthReconnectDelayMs, depthOrphaned>>
  /\ DepthFrame

\* The "open" event of socket s: handleOpen
DepthSocketOpen(s) ==
  /\ depthSockets[s] = "CONNECTING"
  /\ depthSockets' = [depthSockets EXCEPT ![s] = "OPEN"]
  /\ depthReconnectDelayMs' = INITIAL_RECONNECT_DELAY_MS
  /\ UNCHANGED <<depthWs, depthReconnectTimer, depthStopped, depthOrphaned>>
  /\ DepthFrame

\* The "close" event of socket s, closed by stop() or by the server or never
\* connected: handleClose
DepthSocketClose(s) ==
  /\ depthSockets[s] # "CLOSED"
  /\ depthSockets' = [depthSockets EXCEPT ![s] = "CLOSED"]
  /\ depthWs' = <<>>
  /\ depthReconnectTimer' = depthScheduleReconnect(depthReconnectTimer, depthStopped)
  /\ depthOrphaned' = (depthOrphaned \/ (depthWs # <<>> /\ depthWs # <<s>>))
  /\ UNCHANGED <<depthReconnectDelayMs, depthStopped>>
  /\ DepthFrame

\* The reconnect timer fires
DepthReconnectFire ==
  /\ depthReconnectTimer
  /\ connects(depthWs, depthStopped) => DepthFreeSlots(depthSockets) # {}
  /\ depthReconnectTimer' = FALSE
  /\ depthReconnectDelayMs' = nextReconnectDelay(depthReconnectDelayMs)
  /\ depthWs' = connect(depthWs, depthStopped, depthSockets).ws
  /\ depthSockets' = connect(depthWs, depthStopped, depthSockets).sockets
  /\ UNCHANGED <<depthStopped, depthOrphaned>>
  /\ DepthFrame

InitDepth ==
  /\ depthWs = <<>>
  /\ depthSockets = [s \in DepthSocketIds |-> "CLOSED"]
  /\ depthReconnectTimer = FALSE
  /\ depthReconnectDelayMs = INITIAL_RECONNECT_DELAY_MS
  /\ depthStopped = FALSE
  /\ depthOrphaned = FALSE

NextDepth ==
  \/ DepthStart
  \/ DepthStop
  \/ \E s \in DepthSocketIds : DepthSocketOpen(s)
  \/ \E s \in DepthSocketIds : DepthSocketClose(s)
  \/ DepthReconnectFire

\* The sockets of the tracker that are connecting or open
DepthLiveSockets == {s \in DepthSocketIds : depthSockets[s] \in {"CONNECTING", "OPEN"}}

\* After stop() and until start(): no connection is opened, no timer pending
QuietWhileStopped ==
  (depthStopped /\ depthStopped') =>
    (DepthLiveSockets' \subseteq DepthLiveSockets /\ ~depthReconnectTimer')

\* C40: the tracker has at most one live socket at any time, and after stop()
\* it opens no connection and holds no pending reconnect timer until start()
\* is called, under every interleaving of start(), stop(), firings of the
\* reconnect timer and close events, the close event of a stopped socket
\* delivered after a later start() included.
C40_OneSocketAndQuietWhenStopped ==
  /\ [](Cardinality(DepthLiveSockets) <= 1)
  /\ [](depthStopped => ~depthReconnectTimer)
  /\ [][QuietWhileStopped]_vars

\* The second half of the statement: after stop() and until start() the
\* tracker opens no connection and holds no pending reconnect timer
C40_QuietWhenStopped ==
  [](depthStopped => ~depthReconnectTimer) /\ [][QuietWhileStopped]_vars

\* As long as no close event has cleared this.ws while this.ws was another
\* socket, the only live socket is this.ws
C40_OneSocketUntilLateClose ==
  ~depthOrphaned => (Cardinality(DepthLiveSockets) <= 1 /\ \A s \in DepthLiveSockets : depthWs = <<s>>)

\* The socket of a later start() is live while the close event of the socket
\* stop() closed is still to come
C40_LateCloseWitness ==
  /\ ~depthOrphaned /\ ~depthStopped
  /\ \E s \in DepthLiveSockets : depthWs = <<s>>
  /\ \E t \in DepthSocketIds : depthSockets[t] = "CLOSING"

Init ==
  /\ InitTx /\ InitAster /\ InitBook /\ InitAccount /\ InitWs /\ InitRate
  /\ InitListeners /\ InitPoll /\ InitDecimal /\ InitAsterAccount
  /\ InitAsterStream /\ InitAsterRace /\ InitDepth

SpecSubmit == Init /\ [][NextSubmit]_vars
SpecOrders == Init /\ [][NextOrders]_vars
SpecAster == Init /\ [][NextAster]_vars
SpecBook == Init /\ [][NextBook]_vars
SpecBookMerge == Init /\ [][NextBookMerge]_vars
SpecAccount == Init /\ [][NextAccount]_vars
SpecWs == Init /\ [][NextWs]_vars /\ WsFairness
SpecRate == Init /\ [][NextRate]_vars
SpecListeners == Init /\ [][NextListeners]_vars
SpecMetadata == Init /\ [][NextMetadata]_vars
SpecPolling == Init /\ [][NextPolling]_vars
SpecDecimal == Init /\ [][NextDecimal]_vars
SpecAsterAccount == Init /\ [][NextAsterAccount]_vars
SpecAsterInit == Init /\ [][NextAsterInit]_vars
SpecAsterStream == Init /\ [][NextAsterStream]_vars
SpecAsterRace == Init /\ [][NextAsterRace]_vars
SpecDepth == Init /\ [][NextDepth]_vars

====
